---- MODULE Spec2Model ----
(***************************************************************************)
(* A model of the GitKeGunde review agent.                                 *)
(*                                                                         *)
(*   src/main.py                 the FastAPI webhook_handler and its       *)
(*                               helpers (diff position mapper, review     *)
(*                               text parser, reconcile loop)              *)
(*   src/review/review_agent.py  the Flask review() endpoint, its worker   *)
(*                               thread handle_review and call_litellm     *)
(*                                                                         *)
(* Python strings are sequences of one-character strings, so that          *)
(* startswith, strip, split, splitlines, re.match and int() are computed   *)
(* character by character as the interpreter computes them.                *)
(***************************************************************************)
EXTENDS Integers, Sequences, FiniteSets, TLC

(***************************************************************************)
(* Bounds of the model.                                                    *)
(***************************************************************************)
\* the longest patch, in lines, the mapper specification scans
MaxPatchLines == 4
\* the longest review text, in lines, the parser specification parses
MaxTextLines == 3
\* how many times the mapper specification calls the mapper on one patch
MaxCalls == 2

(***************************************************************************)
(* State.  The four parts of the program are checked apart: each           *)
(* specification below runs one part and leaves the others' variables      *)
(* alone.                                                                  *)
(***************************************************************************)
\* map_line_to_position: its argument, its locals, and where it is
VARIABLES patch, patch_lines, scanned, position, new_line_num, line_map, map_pc,
          map_results    \* the maps the calls on this patch have returned

\* the parsing loop of webhook_handler: comment_text, blocks, the index of
\* the block and of the line, lines, current_file, the fields, the findings
VARIABLES ps_text, ps_blocks, ps_bi, ps_lines, ps_li, ps_file, ps_cur,
          ps_findings, ps_pc

\* webhook_handler, per review cycle
VARIABLES
    pc,                \* where each cycle's coroutine is suspended, or how it ended
    loop,              \* "free", or the cycle whose blocking call holds the event loop
    branch,            \* the local branch (line 254)
    pr_files,          \* the local pr_files (line 275)
    file_idx,          \* how many iterations of the loop of line 279 are complete
    file_patch_maps,   \* the local file_patch_maps (lines 277, 284)
    comment_text,      \* the local comment_text (line 291)
    block_idx,         \* the index in blocks of the block of the loop of line 296
    file_suggestions,  \* the local file_suggestions (lines 295, 341)
    trace              \* what each cycle has called, got back, parsed and printed

\* review() and its worker thread handle_review (src/review/review_agent.py)
VARIABLES
    request,           \* the request review() received, or NoRequest
    response,          \* the status review() answered with, 0 before it answers
    worker_pc,         \* where the worker thread is
    repo_path,         \* handle_review's local repo_path
    tmp_dirs,          \* the temporary directories that exist
    attempt,           \* call_litellm's loop variable
    attempts_made,     \* the requests call_litellm has sent
    outcomes,          \* what each request of call_litellm got, in order
    sleeps,            \* the waits call_litellm has slept
    llm_out,           \* how call_litellm ended
    comments           \* the comments the worker tried to post

\* extract_changed_lines: its argument, lines, how many are scanned, its locals
VARIABLES diff_text, ex_lines, ex_i, prev_line, changes, ex_pc

mapperVars ==
    <<patch, patch_lines, scanned, position, new_line_num, line_map, map_pc,
      map_results>>

parserVars ==
    <<ps_text, ps_blocks, ps_bi, ps_lines, ps_li, ps_file, ps_cur, ps_findings,
      ps_pc>>

cycleVars ==
    <<pc, loop, branch, pr_files, file_idx, file_patch_maps, comment_text,
      block_idx, file_suggestions, trace>>

workerVars ==
    <<request, response, worker_pc, repo_path, tmp_dirs, attempt, attempts_made, outcomes,
      sleeps, llm_out, comments>>

extractorVars == <<diff_text, ex_lines, ex_i, prev_line, changes, ex_pc>>

vars == <<mapperVars, parserVars, cycleVars, workerVars, extractorVars>>

(***************************************************************************)
(* Python str operations.                                                  *)
(***************************************************************************)
NL == "\n"

\* str.startswith(p)
StartsWith(s, p) == Len(s) >= Len(p) /\ SubSeq(s, 1, Len(p)) = p

\* str.isspace() of one character, over the characters the model uses
IsSpace(ch) == ch \in {" ", NL}

RECURSIVE LStrip(_)
LStrip(s) == IF s # <<>> /\ IsSpace(Head(s)) THEN LStrip(Tail(s)) ELSE s

RECURSIVE RStrip(_)
RStrip(s) ==
    IF s # <<>> /\ IsSpace(s[Len(s)]) THEN RStrip(SubSeq(s, 1, Len(s) - 1)) ELSE s

\* str.strip()
Strip(s) == RStrip(LStrip(s))

\* str.find(p): the 1-based index of the first occurrence of p in s, 0 if none
RECURSIVE FindFrom(_, _, _)
FindFrom(s, p, i) ==
    IF i + Len(p) - 1 > Len(s) THEN 0
    ELSE IF SubSeq(s, i, i + Len(p) - 1) = p THEN i
    ELSE FindFrom(s, p, i + 1)

Find(s, p) == FindFrom(s, p, 1)

\* str.split(sep): the pieces between the non-overlapping occurrences of sep
RECURSIVE Split(_, _)
Split(s, sep) ==
    LET k == Find(s, sep) IN
    IF k = 0 THEN <<s>>
    ELSE <<SubSeq(s, 1, k - 1)>> \o Split(SubSeq(s, k + Len(sep), Len(s)), sep)

\* str.splitlines(): no line for the empty string, none after a final newline
RECURSIVE SplitLines(_)
SplitLines(s) ==
    IF s = <<>> THEN <<>>
    ELSE LET k == Find(s, <<NL>>) IN
         IF k = 0 THEN <<s>>
         ELSE <<SubSeq(s, 1, k - 1)>> \o SplitLines(SubSeq(s, k + 1, Len(s)))

\* "\n".join(lines)
RECURSIVE JoinLines(_)
JoinLines(lines) ==
    IF lines = <<>> THEN <<>>
    ELSE IF Len(lines) = 1 THEN lines[1]
    ELSE lines[1] \o <<NL>> \o JoinLines(Tail(lines))

Digits == {"0", "1", "2", "3", "4", "5", "6", "7", "8", "9"}

DigitVal(ch) ==
    CASE ch = "0" -> 0 [] ch = "1" -> 1 [] ch = "2" -> 2 [] ch = "3" -> 3
      [] ch = "4" -> 4 [] ch = "5" -> 5 [] ch = "6" -> 6 [] ch = "7" -> 7
      [] ch = "8" -> 8 [] ch = "9" -> 9

\* the index after the longest run of digits of s that starts at i (regex \d+)
RECURSIVE DigitsEnd(_, _)
DigitsEnd(s, i) ==
    IF i <= Len(s) /\ s[i] \in Digits THEN DigitsEnd(s, i + 1) ELSE i

\* the value of a non-empty sequence of decimal digits
RECURSIVE DecimalVal(_)
DecimalVal(s) ==
    IF s = <<>> THEN 0
    ELSE 10 * DecimalVal(SubSeq(s, 1, Len(s) - 1)) + DigitVal(s[Len(s)])

\* int(s): surrounding whitespace and one sign allowed, then digits only;
\* ok is FALSE where int() raises ValueError
ParseInt(s) ==
    LET t == Strip(s)
        signed == t # <<>> /\ t[1] \in {"+", "-"}
        d == IF signed THEN Tail(t) ELSE t
        ok == d # <<>> /\ \A i \in 1..Len(d) : d[i] \in Digits
    IN [ok |-> ok,
        val |-> IF ~ok THEN 0
                ELSE IF signed /\ t[1] = "-" THEN 0 - DecimalVal(d)
                ELSE DecimalVal(d)]

(***************************************************************************)
(* map_line_to_position (src/main.py).                                     *)
(***************************************************************************)
\* an optional ",\d+" at index i of s: the index after it, or i
OptCount(s, i) ==
    IF i <= Len(s) /\ s[i] = "," /\ DigitsEnd(s, i + 1) > i + 1
    THEN DigitsEnd(s, i + 1) ELSE i

\* re.match(r"@@ -\d+(?:,\d+)? \+(\d+)(?:,\d+)? @@", line): whether it
\* matches at the start of the line, and int(m.group(1))
HunkMatch(line) ==
    LET a == DigitsEnd(line, 5)
        b == OptCount(line, a)
        c == DigitsEnd(line, b + 2)
        d == OptCount(line, c)
        ok == /\ StartsWith(line, <<"@", "@", " ", "-">>)
              /\ a > 5
              /\ b + 1 <= Len(line) /\ line[b] = " " /\ line[b + 1] = "+"
              /\ c > b + 2
              /\ d + 2 <= Len(line)
              /\ SubSeq(line, d, d + 2) = <<" ", "@", "@">>
    IN [ok |-> ok,
        start |-> IF ok THEN DecimalVal(SubSeq(line, b + 2, c - 1)) ELSE 0]

\* line_map[k] = v
MapPut(m, k, v) == [x \in DOMAIN m \cup {k} |-> IF x = k THEN v ELSE m[x]]

\* the state of the scan before the first line
MapInit == [position |-> 0, new_line_num |-> 0, line_map |-> <<>>]

\* a mapper whose line_map, position and new_line_num outlive the call
MapEnterCarried(prev) == prev

\* lines 60-62: every call starts from its own fresh locals
MapEnter(prev) == MapInit

\* a mapper that restarts position at every hunk header
MapStepHunkRelative(st, line) ==
    IF StartsWith(line, <<"@", "@">>)
    THEN LET m == HunkMatch(line) IN
         [st EXCEPT !.position = 0,
                    !.new_line_num = IF m.ok THEN m.start - 1 ELSE @]
    ELSE IF StartsWith(line, <<"+">>) \/ StartsWith(line, <<" ">>)
    THEN [position |-> st.position + 1,
          new_line_num |-> st.new_line_num + 1,
          line_map |-> MapPut(st.line_map, st.new_line_num + 1, st.position + 1)]
    ELSE [st EXCEPT !.position = @ + 1]

\* a mapper whose position does not count removed lines
MapStepSkipsRemoved(st, line) ==
    IF StartsWith(line, <<"@", "@">>)
    THEN LET m == HunkMatch(line) IN
         [st EXCEPT !.position = @ + 1,
                    !.new_line_num = IF m.ok THEN m.start - 1 ELSE @]
    ELSE IF StartsWith(line, <<"+">>) \/ StartsWith(line, <<" ">>)
    THEN [position |-> st.position + 1,
          new_line_num |-> st.new_line_num + 1,
          line_map |-> MapPut(st.line_map, st.new_line_num + 1, st.position + 1)]
    ELSE IF StartsWith(line, <<"-">>) THEN st
    ELSE [st EXCEPT !.position = @ + 1]

\* a mapper that sets new_line_num to the start of the hunk itself
MapStepHunkNoOffset(st, line) ==
    IF StartsWith(line, <<"@", "@">>)
    THEN LET m == HunkMatch(line) IN
         [st EXCEPT !.position = @ + 1,
                    !.new_line_num = IF m.ok THEN m.start ELSE @]
    ELSE IF StartsWith(line, <<"+">>) \/ StartsWith(line, <<" ">>)
    THEN [position |-> st.position + 1,
          new_line_num |-> st.new_line_num + 1,
          line_map |-> MapPut(st.line_map, st.new_line_num + 1, st.position + 1)]
    ELSE [st EXCEPT !.position = @ + 1]

\* a mapper that records removed lines like added ones
MapStepRecordsRemoved(st, line) ==
    IF StartsWith(line, <<"@", "@">>)
    THEN LET m == HunkMatch(line) IN
         [st EXCEPT !.position = @ + 1,
                    !.new_line_num = IF m.ok THEN m.start - 1 ELSE @]
    ELSE IF StartsWith(line, <<"+">>) \/ StartsWith(line, <<" ">>)
            \/ StartsWith(line, <<"-">>)
    THEN [position |-> st.position + 1,
          new_line_num |-> st.new_line_num + 1,
          line_map |-> MapPut(st.line_map, st.new_line_num + 1, st.position + 1)]
    ELSE [st EXCEPT !.position = @ + 1]

\* one iteration of the loop over patch.splitlines()
MapStep(st, line) ==
    LET pos == st.position + 1 IN
    IF StartsWith(line, <<"@", "@">>)
    THEN LET m == HunkMatch(line) IN
         [st EXCEPT !.position = pos,
                    !.new_line_num = IF m.ok THEN m.start - 1 ELSE @]
    ELSE IF StartsWith(line, <<"+">>) \/ StartsWith(line, <<" ">>)
    THEN [position |-> pos,
          new_line_num |-> st.new_line_num + 1,
          line_map |-> MapPut(st.line_map, st.new_line_num + 1, pos)]
    ELSE [st EXCEPT !.position = pos]

RECURSIVE MapScan(_, _)
MapScan(st, lines) ==
    IF lines = <<>> THEN st ELSE MapScan(MapStep(st, Head(lines)), Tail(lines))

map_line_to_position(p) == MapScan(MapInit, SplitLines(p)).line_map

(***************************************************************************)
(* The review text parser of webhook_handler (src/main.py 294-324).        *)
(***************************************************************************)
sFile == <<"F", "i", "l", "e", ":">>
sLine == <<"L", "i", "n", "e", ":">>
sSeverity == <<"S", "e", "v", "e", "r", "i", "t", "y", ":">>
sIssue == <<"I", "s", "s", "u", "e", ":">>
sSuggestion == <<"S", "u", "g", "g", "e", "s", "t", "i", "o", "n", ":">>
\* the backtick character (the lexer takes no backtick inside a string)
BackTick == "BACKTICK"
sFence == <<BackTick, BackTick, BackTick>>
sFenceOpen == sFence \o <<"s", "u", "g", "g", "e", "s", "t", "i", "o", "n">>
sInfo == <<"I", "n", "f", "o">>
sNone == <<"N", "o", "n", "e">>

\* Python's None and a present value
None == [some |-> FALSE]
Some(v) == [some |-> TRUE, val |-> v]

\* line.split(":", 1)[1].strip() of a line that holds a colon
AfterColon(line) == Strip(SubSeq(line, Find(line, <<":">>) + 1, Len(line)))

\* the fields of a block before its first field line (lines 299-304)
ParseInit ==
    [line_num |-> None, severity |-> None, issue |-> None, suggestion |-> None,
     in_code_block |-> FALSE, suggestion_code |-> <<>>]

\* a parser that falls back to line 1 when the line number is no integer
ParseLineFallback(st, line) ==
    IF StartsWith(line, sLine)
    THEN LET n == ParseInt(AfterColon(line)) IN
         [st EXCEPT !.line_num = IF n.ok THEN Some(n.val) ELSE Some(1)]
    ELSE IF StartsWith(line, sSeverity)
    THEN [st EXCEPT !.severity = Some(AfterColon(line))]
    ELSE IF StartsWith(line, sIssue)
    THEN [st EXCEPT !.issue = Some(AfterColon(line))]
    ELSE IF StartsWith(line, sSuggestion)
    THEN [st EXCEPT !.suggestion = Some(AfterColon(line))]
    ELSE IF StartsWith(Strip(line), sFenceOpen)
    THEN [st EXCEPT !.in_code_block = TRUE, !.suggestion_code = <<>>]
    ELSE IF Strip(line) = sFence /\ st.in_code_block
    THEN [st EXCEPT !.in_code_block = FALSE]
    ELSE IF st.in_code_block
    THEN [st EXCEPT !.suggestion_code = @ \o line \o <<NL>>]
    ELSE st

\* one iteration of the loop over lines[1:] (lines 306-324)
ParseLine(st, line) ==
    IF StartsWith(line, sLine)
    THEN LET n == ParseInt(AfterColon(line)) IN
         [st EXCEPT !.line_num = IF n.ok THEN Some(n.val) ELSE None]
    ELSE IF StartsWith(line, sSeverity)
    THEN [st EXCEPT !.severity = Some(AfterColon(line))]
    ELSE IF StartsWith(line, sIssue)
    THEN [st EXCEPT !.issue = Some(AfterColon(line))]
    ELSE IF StartsWith(line, sSuggestion)
    THEN [st EXCEPT !.suggestion = Some(AfterColon(line))]
    ELSE IF StartsWith(Strip(line), sFenceOpen)
    THEN [st EXCEPT !.in_code_block = TRUE, !.suggestion_code = <<>>]
    ELSE IF Strip(line) = sFence /\ st.in_code_block
    THEN [st EXCEPT !.in_code_block = FALSE]
    ELSE IF st.in_code_block
    THEN [st EXCEPT !.suggestion_code = @ \o line \o <<NL>>]
    ELSE st

RECURSIVE ParseLines(_, _)
ParseLines(st, lines) ==
    IF lines = <<>> THEN st ELSE ParseLines(ParseLine(st, Head(lines)), Tail(lines))

\* comment_text.split("File:")
SplitBlocks(text) == Split(text, sFile)

\* block.strip().splitlines()
BlockLines(block) == SplitLines(Strip(block))

\* a block whose stripped text has no line: lines[0] raises IndexError
BlockRaises(block) == BlockLines(block) = <<>>

\* what the loop body knows of a block when it reaches line 326
Finding(current_file, st) ==
    [current_file |-> current_file, line_num |-> st.line_num,
     severity |-> st.severity, issue |-> st.issue, suggestion |-> st.suggestion,
     suggestion_code |-> st.suggestion_code]

\* lines 297-324 for a block that does not raise
ParseBlock(block) ==
    LET lines == BlockLines(block) IN
    Finding(Strip(lines[1]), ParseLines(ParseInit, Tail(lines)))

(***************************************************************************)
(* Sequences of at most n elements of S.                                   *)
(***************************************************************************)
SeqsUpTo(S, n) == UNION {[1..k -> S] : k \in 0..n}

(***************************************************************************)
(* The mapper on its own: map_line_to_position scanning one patch, one     *)
(* loop iteration per step.                                                *)
(***************************************************************************)
\* "@@ -1,2 +1,3 @@"
hunkAt1 == <<"@", "@", " ", "-", "1", ",", "2", " ", "+", "1", ",", "3", " ", "@", "@">>
\* "@@ -2 +3 @@": the pre-image start differs from the post-image start
hunkAt3 == <<"@", "@", " ", "-", "2", " ", "+", "3", " ", "@", "@">>
\* "@@ bad": starts with "@@" and does not match the pattern
hunkBad == <<"@", "@", " ", "b", "a", "d">>
\* "+added", " context", "-removed" cut to their first characters
addedLine == <<"+", "a">>
contextLine == <<" ", "c">>
removedLine == <<"-", "r">>
\* "+++ b" and "--- a"
plusHeader == <<"+", "+", "+", " ", "b">>
minusHeader == <<"-", "-", "-", " ", "a">>

\* the lines a patch of the mapper specification is made of
PatchLines ==
    {hunkAt1, hunkAt3, hunkBad, addedLine, contextLine, removedLine,
     plusHeader, minusHeader, <<>>}

\* the patch texts: up to n lines joined by newlines
Patches(n) == {JoinLines(ls) : ls \in SeqsUpTo(PatchLines, n)}

MapperIdle ==
    /\ patch = <<>> /\ patch_lines = <<>> /\ scanned = 0 /\ position = 0 /\ new_line_num = 0
    /\ line_map = <<>> /\ map_pc = "idle" /\ map_results = <<>>

\* lines 60-63: the call with one patch, patch.splitlines() evaluated
MapperInit ==
    /\ patch \in Patches(MaxPatchLines)
    /\ patch_lines = SplitLines(patch)
    /\ scanned = 0
    /\ position = MapInit.position
    /\ new_line_num = MapInit.new_line_num
    /\ line_map = MapInit.line_map
    /\ map_pc = "scan"
    /\ map_results = <<>>

\* lines 63-73: one iteration of the loop
MapperScanLine ==
    /\ map_pc = "scan"
    /\ scanned < Len(patch_lines)
    /\ LET st == MapStep([position |-> position, new_line_num |-> new_line_num,
                          line_map |-> line_map],
                         patch_lines[scanned + 1])
       IN /\ position' = st.position
          /\ new_line_num' = st.new_line_num
          /\ line_map' = st.line_map
    /\ scanned' = scanned + 1
    /\ UNCHANGED <<patch, patch_lines, map_pc, map_results>>
    /\ UNCHANGED <<parserVars, cycleVars, workerVars, extractorVars>>

\* line 74: return line_map
MapperReturn ==
    /\ map_pc = "scan"
    /\ scanned = Len(patch_lines)
    /\ map_pc' = "done"
    /\ map_results' = Append(map_results, line_map)
    /\ UNCHANGED <<patch, patch_lines, scanned, position, new_line_num, line_map>>
    /\ UNCHANGED <<parserVars, cycleVars, workerVars, extractorVars>>

\* lines 59-74 once more on the same patch, as one step: the call enters
\* with the locals the previous call left behind it, scans and returns
MapperCallAgain ==
    /\ map_pc = "done"
    /\ Len(map_results) < MaxCalls
    /\ \E st \in {MapScan(MapEnter([position |-> position,
                                      new_line_num |-> new_line_num,
                                      line_map |-> line_map]),
                            patch_lines)} :
          /\ position' = st.position
          /\ new_line_num' = st.new_line_num
          /\ line_map' = st.line_map
          /\ map_results' = Append(map_results, st.line_map)
    /\ UNCHANGED <<patch, patch_lines, scanned, map_pc>>
    /\ UNCHANGED <<parserVars, cycleVars, workerVars, extractorVars>>

(***************************************************************************)
(* The parser on its own: the parsing part of the loop over blocks[1:],    *)
(* one block head, one field line or one block end per step.               *)
(***************************************************************************)
\* the lines a review text of the parser specification is made of
TextLines ==
    {sFile \o <<" ", "a">>,                 \* "File: a"
     sFile,                                  \* "File:"
     sFile \o sFile \o <<" ", "a">>,        \* "File:File: a"
     sLine \o <<" ", "1">>,                 \* "Line: 1"
     sLine \o <<" ", "x">>,                 \* "Line: x"
     sSeverity \o <<" ", "M">>,             \* "Severity: M"
     sIssue \o <<" ", "i">>,                \* "Issue: i"
     sSuggestion \o <<" ", "s">>,           \* "Suggestion: s"
     sFenceOpen,
     sFence,
     <<"y">>,                                \* a line of prose or of code
     <<" ">>}

\* the review texts: up to n lines joined by newlines
ReviewTexts(n) == {JoinLines(ls) : ls \in SeqsUpTo(TextLines, n)}

\* longer review texts: one block with a suggestion fence
FencedTexts ==
    {\* a fence around two lines of code
     JoinLines(<<sFile \o <<" ", "a">>, sLine \o <<" ", "1">>, sFenceOpen,
                 <<"y">>, <<" ", "y">>, sFence>>),
     \* a fence around a line of code that begins with "Line:"
     JoinLines(<<sFile \o <<" ", "a">>, sFenceOpen, sLine \o <<" ", "1">>, sFence>>),
     \* a fence around code that begins with "Severity:", after a Severity field
     JoinLines(<<sFile \o <<" ", "a">>, sSeverity \o <<" ", "M">>, sFenceOpen,
                 sSeverity \o <<" ", "y">>, <<"y">>, sFence>>),
     \* the four fields, last first
     JoinLines(<<sFile \o <<" ", "a">>, sSuggestion \o <<" ", "s">>,
                 sIssue \o <<" ", "i">>, sSeverity \o <<" ", "M">>,
                 sLine \o <<" ", "1">>>>),
     \* a Line field, a fence around code that begins with "Line:", a Severity field
     JoinLines(<<sFile \o <<" ", "a">>, sLine \o <<" ", "1">>, sFenceOpen,
                 sLine \o <<" ", "2">>, sFence, sSeverity \o <<" ", "M">>>>),
     \* the same with the two fields exchanged
     JoinLines(<<sFile \o <<" ", "a">>, sSeverity \o <<" ", "M">>, sFenceOpen,
                 sLine \o <<" ", "2">>, sFence, sLine \o <<" ", "1">>>>)}

ParserIdle ==
    /\ ps_text = <<>> /\ ps_blocks = <<>> /\ ps_bi = 0 /\ ps_lines = <<>>
    /\ ps_li = 0 /\ ps_file = <<>> /\ ps_cur = ParseInit /\ ps_findings = <<>>
    /\ ps_pc = "idle"

ParserInit ==
    /\ ps_text \in ReviewTexts(MaxTextLines) \cup FencedTexts
    /\ ps_blocks = <<>> /\ ps_bi = 0 /\ ps_lines = <<>> /\ ps_li = 0
    /\ ps_file = <<>> /\ ps_cur = ParseInit /\ ps_findings = <<>>
    /\ ps_pc = "split"

\* line 294: blocks = comment_text.split("File:"); line 296 starts at blocks[1]
ParserSplit ==
    /\ ps_pc = "split"
    /\ ps_blocks' = SplitBlocks(ps_text)
    /\ ps_bi' = 2
    /\ ps_pc' = IF Len(SplitBlocks(ps_text)) >= 2 THEN "block" ELSE "done"
    /\ UNCHANGED <<ps_text, ps_lines, ps_li, ps_file, ps_cur, ps_findings>>
    /\ UNCHANGED <<mapperVars, cycleVars, workerVars, extractorVars>>

\* lines 297-304: the block's lines, its first line as the file, fields reset
ParserBlockHead ==
    /\ ps_pc = "block"
    /\ IF BlockRaises(ps_blocks[ps_bi])
       THEN /\ ps_pc' = "raised"
            /\ ps_lines' = <<>>
            /\ UNCHANGED <<ps_li, ps_file, ps_cur>>
       ELSE /\ ps_lines' = BlockLines(ps_blocks[ps_bi])
            /\ ps_file' = Strip(BlockLines(ps_blocks[ps_bi])[1])
            /\ ps_cur' = ParseInit
            /\ ps_li' = 2
            /\ ps_pc' = "lines"
    /\ UNCHANGED <<ps_text, ps_blocks, ps_bi, ps_findings>>
    /\ UNCHANGED <<mapperVars, cycleVars, workerVars, extractorVars>>

\* lines 306-324: one line of lines[1:]
ParserFieldLine ==
    /\ ps_pc = "lines"
    /\ ps_li <= Len(ps_lines)
    /\ ps_cur' = ParseLine(ps_cur, ps_lines[ps_li])
    /\ ps_li' = ps_li + 1
    /\ UNCHANGED <<ps_text, ps_blocks, ps_bi, ps_lines, ps_file, ps_findings, ps_pc>>
    /\ UNCHANGED <<mapperVars, cycleVars, workerVars, extractorVars>>

\* the end of lines[1:]: the block's finding is complete; on to the next block
ParserBlockEnd ==
    /\ ps_pc = "lines"
    /\ ps_li > Len(ps_lines)
    /\ ps_findings' = Append(ps_findings, Finding(ps_file, ps_cur))
    /\ ps_bi' = ps_bi + 1
    /\ ps_pc' = IF ps_bi + 1 <= Len(ps_blocks) THEN "block" ELSE "done"
    /\ UNCHANGED <<ps_text, ps_blocks, ps_lines, ps_li, ps_file, ps_cur>>
    /\ UNCHANGED <<mapperVars, cycleVars, workerVars, extractorVars>>

(***************************************************************************)
(* webhook_handler (src/main.py 224-346): review cycles on one asyncio     *)
(* event loop.  A cycle runs from one await to the next without            *)
(* interruption; at an await it is suspended and another cycle may run.    *)
(***************************************************************************)
Cycles == {"c1", "c2"}

Call(fn) == [ev |-> "call", fn |-> fn]
Ret(fn, ok) == [ev |-> "ret", fn |-> fn, ok |-> ok]
Raise(at) == [ev |-> "raise", at |-> at]

\* ---- the deliveries ----------------------------------------------------
sAutoFix == <<"a", "u", "t", "o", "-", "f", "i", "x", "-">>
sRefsHeads == <<"r", "e", "f", "s", "/", "h", "e", "a", "d", "s", "/">>

Refs ==
    {sRefsHeads \o <<"f">>,               \* a feature branch
     sRefsHeads \o sAutoFix \o <<"1">>,   \* a branch apply_suggestions_locally made
     sRefsHeads}                          \* no branch name after the last "/"

\* the payloads of a delivery, by what lines 226-267 read of them
Payloads ==
    {[kind |-> "invalid"], [kind |-> "other"]}
    \cup {[kind |-> "pull_request", has_repo |-> h, has_number |-> n] :
            h \in BOOLEAN, n \in BOOLEAN}
    \cup {[kind |-> "push", ref |-> r, has_repo |-> h] : r \in Refs, h \in BOOLEAN}

\* ref.split("/")[-1]
LastSegment(ref) == LET parts == Split(ref, <<"/">>) IN parts[Len(parts)]

\* ---- the changed files of a pull request -------------------------------
fileA == <<"a">>
fileB == <<"b">>

\* {1: 2, 2: 3}
patchOne == JoinLines(<<hunkAt1, contextLine, addedLine, removedLine>>)
\* {1: 3}
patchTwo == JoinLines(<<hunkAt1, removedLine, addedLine>>)

FileLists ==
    {<<>>,
     <<[filename |-> fileA, patch |-> patchOne], [filename |-> fileB, patch |-> patchTwo]>>,
     <<[filename |-> fileA, patch |-> patchTwo]>>}

\* ---- the review texts generate_review_comment may return ---------------
lineFileA == sFile \o <<" ", "a">>
lineFileB == sFile \o <<" ", "b">>
lineLine1 == sLine \o <<" ", "1">>
lineLine2 == sLine \o <<" ", "2">>
lineLine9 == sLine \o <<" ", "9">>
lineLineX == sLine \o <<" ", "x">>
lineSeverityM == sSeverity \o <<" ", "M">>

CycleTexts ==
    {<<>>,
     \* one finding on a mapped line, with suggested code
     JoinLines(<<lineFileA, lineLine1, sFenceOpen, <<"y">>, sFence>>),
     \* a line that is in no map, then a finding on file b
     JoinLines(<<lineFileA, lineLine9, lineFileB, lineLine1>>),
     \* two findings on file a
     JoinLines(<<lineFileA, lineLine1, lineFileA, lineLine2>>),
     \* a finding with no Line:, an empty block, a finding
     JoinLines(<<lineFileA, sFile, lineFileA, lineLine1>>),
     \* a finding, then a marker followed by nothing
     JoinLines(<<lineFileA, lineLine1, sFile>>),
     \* suggested code for a line that is in no map
     JoinLines(<<lineFileA, lineLine9, sFenceOpen, <<"y">>, sFence>>),
     \* a line number that is no integer, then a finding on file b with
     \* every field and indented suggested code
     JoinLines(<<lineFileA, lineLineX, lineSeverityM, lineFileB, lineLine1,
                 lineSeverityM, sIssue \o <<" ", "i">>, sSuggestion \o <<" ", "s">>,
                 sFenceOpen, <<" ", "y">>, sFence>>)}

\* ---- reconcile (lines 326-341) -----------------------------------------
\* line 326
Mapped(maps, f) ==
    /\ f.current_file \in DOMAIN maps
    /\ f.line_num.some
    /\ f.line_num.val \in DOMAIN maps[f.current_file]

\* Python truth of a string that may be None
Truthy(opt) == opt.some /\ opt.val # <<>>

\* str() of a string that may be None, as an f-string formats it
Str(opt) == IF opt.some THEN opt.val ELSE sNone

\* a body that formats the severity as it is, absent or not
CommentBodyNoDefault(f) ==
    <<"*", "*">> \o Str(f.severity)
    \o <<"*", "*", NL, NL>> \o sIssue \o <<" ">> \o Str(f.issue)
    \o <<NL, NL>> \o sSuggestion \o <<" ">> \o Str(f.suggestion)
    \o <<NL, NL>> \o sFenceOpen \o <<NL>> \o Strip(f.suggestion_code)
    \o <<NL>> \o sFence

\* lines 328-330
CommentBody(f) ==
    <<"*", "*">> \o (IF Truthy(f.severity) THEN f.severity.val ELSE sInfo)
    \o <<"*", "*", NL, NL>> \o sIssue \o <<" ">> \o Str(f.issue)
    \o <<NL, NL>> \o sSuggestion \o <<" ">> \o Str(f.suggestion)
    \o <<NL, NL>> \o sFenceOpen \o <<NL>> \o Strip(f.suggestion_code)
    \o <<NL>> \o sFence

\* lines 340-341
RecordSuggestion(sugg, f) ==
    IF /\ f.current_file # <<>>
       /\ f.line_num.some /\ f.line_num.val # 0
       /\ f.suggestion_code # <<>>
    THEN LET old == IF f.current_file \in DOMAIN sugg
                    THEN sugg[f.current_file] ELSE <<>>
         IN MapPut(sugg, f.current_file,
                   MapPut(old, f.line_num.val, f.suggestion_code))
    ELSE sugg

\* a reconcile step that drops an unmapped finding without a word
UnmappedSilent(tr, i, f) == tr

\* lines 338-339: the diagnostic of a finding that has no diff position
Unmapped(tr, i, f) ==
    Append(tr, [ev |-> "diag", block |-> i, file |-> f.current_file,
                line |-> f.line_num])

\* an inline comment positioned by the line number alone: the lowest
\* position any file's map has for it
InlineCallByLineOnly(maps, i, f) ==
    [ev |-> "call", fn |-> "post_inline_comment", block |-> i,
     path |-> f.current_file,
     position |->
        LET ps == {maps[g][f.line_num.val] :
                      g \in {h \in DOMAIN maps : f.line_num.val \in DOMAIN maps[h]}}
        IN CHOOSE q \in ps : \A r \in ps : q <= r,
     body |-> CommentBody(f)]

\* lines 327-335: the inline comment request of a mapped finding
InlineCall(maps, i, f) ==
    [ev |-> "call", fn |-> "post_inline_comment", block |-> i,
     path |-> f.current_file,
     position |-> maps[f.current_file][f.line_num.val],
     body |-> CommentBody(f)]

\* The loop of line 296 from blocks[i] on, up to the next await: the post of
\* a mapped finding (stop "post"), the end of the blocks (stop "end") or the
\* IndexError of a block with no line (stop "raised").
RECURSIVE RunBlocks(_, _, _, _, _)
RunBlocks(maps, blocks, i, tr, sugg) ==
    IF i > Len(blocks)
    THEN [stop |-> "end", block_idx |-> i, trace |-> tr, sugg |-> sugg]
    ELSE IF BlockRaises(blocks[i])
    THEN [stop |-> "raised", block_idx |-> i,
          trace |-> Append(tr, Raise("parse")), sugg |-> sugg]
    ELSE LET f == ParseBlock(blocks[i])
             tr1 == Append(tr, [ev |-> "finding", block |-> i, finding |-> f])
         IN IF Mapped(maps, f)
            THEN [stop |-> "post", block_idx |-> i,
                  trace |-> Append(tr1, InlineCall(maps, i, f)), sugg |-> sugg]
            ELSE RunBlocks(maps, blocks, i + 1, Unmapped(tr1, i, f),
                           RecordSuggestion(sugg, f))

\* an except clause that lets the failure of post_inline_comment through
AfterPostInlineUncaught(ok) == IF ok THEN "continue" ELSE "raised"

\* lines 331-337: the try/except around post_inline_comment catches Exception
AfterPostInline(ok) == "continue"

\* a loop over pr_files that goes on to the review after its first file
AfterContentFirstOnly(files, done) == "generate"

\* lines 279-291: the next file's content, or the review after the last file
AfterContent(files, done) == IF done < Len(files) THEN "content" ELSE "generate"

\* a file_patch_maps kept at module level: one dictionary for every cycle
StoreMapShared(maps, c, name, m) == [d \in Cycles |-> MapPut(maps[d], name, m)]

\* line 284: file_patch_maps[file_path] = map_line_to_position(patch)
StoreMap(maps, c, name, m) == [maps EXCEPT ![c] = MapPut(@, name, m)]

Upd(f, c, v) == [f EXCEPT ![c] = v]

CycleInit ==
    /\ pc = [c \in Cycles |-> "idle"]
    /\ loop = "free"
    /\ branch = [c \in Cycles |-> <<>>]
    /\ pr_files = [c \in Cycles |-> <<>>]
    /\ file_idx = [c \in Cycles |-> 0]
    /\ file_patch_maps = [c \in Cycles |-> <<>>]
    /\ comment_text = [c \in Cycles |-> <<>>]
    /\ block_idx = [c \in Cycles |-> 0]
    /\ file_suggestions = [c \in Cycles |-> <<>>]
    /\ trace = [c \in Cycles |-> <<>>]

\* a cycle may run when no other cycle's blocking call holds the event loop
CanRun(c) == loop = "free"

\* lines 226-267 for one payload: how far the handler gets before its first
\* await on the network, with the branch it has read
Receive(p) ==
    CASE p.kind = "invalid" ->
            [pc |-> "done_400", branch |-> <<>>, evs |-> <<Raise("payload")>>]
      [] p.kind = "other" ->
            [pc |-> "done_200", branch |-> <<>>, evs |-> <<[ev |-> "ignored"]>>]
      [] p.kind = "pull_request" ->
            \* lines 246-251 read the record; line 269 reads branch, which
            \* only the push path assigns: UnboundLocalError, before the
            \* test of line 272 on the repository name and the PR number
            [pc |-> "done_500", branch |-> <<>>, evs |-> <<Raise("branch")>>]
      [] p.kind = "push" ->
            IF ~p.has_repo \/ LastSegment(p.ref) = <<>>
            THEN [pc |-> "done_400", branch |-> LastSegment(p.ref),
                  evs |-> <<Raise("missing")>>]
            ELSE [pc |-> "await_find_pr", branch |-> LastSegment(p.ref),
                  evs |-> <<Call("find_pr_number")>>]

\* a webhook delivery arrives and runs to its first await or to its end
Deliver(c) ==
    /\ pc[c] = "idle" /\ CanRun(c)
    /\ \E p \in Payloads :
         /\ pc' = Upd(pc, c, Receive(p).pc)
         /\ branch' = Upd(branch, c, Receive(p).branch)
         /\ trace' = Upd(trace, c, <<[ev |-> "deliver", kind |-> p.kind, payload |-> p]>>
                                    \o Receive(p).evs)
    /\ UNCHANGED <<loop, pr_files, file_idx, file_patch_maps, comment_text,
                   block_idx, file_suggestions>>
    /\ UNCHANGED <<mapperVars, parserVars, workerVars, extractorVars>>

\* lines 257-260: find_pr_number answers
FindPrDone(c) ==
    /\ pc[c] = "await_find_pr" /\ CanRun(c)
    /\ \E resp \in {"raise", "none", "number"} :
         /\ pc' = Upd(pc, c, CASE resp = "raise" -> "done_500"
                               [] resp = "none" -> "done_200"
                               [] resp = "number" -> "await_metadata")
         /\ trace' = Upd(trace, c,
              trace[c] \o
              (CASE resp = "raise" ->
                      <<Ret("find_pr_number", FALSE), Raise("find_pr_number")>>
                 [] resp = "none" ->
                      <<Ret("find_pr_number", TRUE), [ev |-> "no_open_pr"]>>
                 [] resp = "number" ->
                      <<Ret("find_pr_number", TRUE), Call("get_pr_metadata")>>))
    /\ UNCHANGED <<loop, branch, pr_files, file_idx, file_patch_maps,
                   comment_text, block_idx, file_suggestions>>
    /\ UNCHANGED <<mapperVars, parserVars, workerVars, extractorVars>>

\* a test for the bare prefix as the whole branch name
IsAutoFixExact(b) == b = sAutoFix

\* line 269: branch.startswith("auto-fix-")
IsAutoFix(b) == StartsWith(b, sAutoFix)

\* lines 260-275: get_pr_metadata answers; the auto-fix check; get_pr_files
MetadataDone(c) ==
    /\ pc[c] = "await_metadata" /\ CanRun(c)
    /\ \E ok \in BOOLEAN :
         /\ pc' = Upd(pc, c, IF ~ok THEN "done_500"
                             ELSE IF IsAutoFix(branch[c]) THEN "done_200"
                             ELSE "await_files")
         /\ trace' = Upd(trace, c,
              trace[c] \o
              (IF ~ok THEN <<Ret("get_pr_metadata", FALSE), Raise("get_pr_metadata")>>
               ELSE IF IsAutoFix(branch[c])
               THEN <<Ret("get_pr_metadata", TRUE), [ev |-> "ignored"]>>
               ELSE <<Ret("get_pr_metadata", TRUE), Call("get_pr_files")>>))
    /\ UNCHANGED <<loop, branch, pr_files, file_idx, file_patch_maps,
                   comment_text, block_idx, file_suggestions>>
    /\ UNCHANGED <<mapperVars, parserVars, workerVars, extractorVars>>

\* the call a cycle makes once `done` files are complete: the next file's
\* content (an await) or generate_review_comment, whose
\* gptClient.chat.completions.create is a synchronous call inside the
\* coroutine: the event loop is held until it returns
FetchOrGenerate(c, files, done, tr) ==
    IF AfterContent(files, done) = "content"
    THEN [pc |-> "await_content", loop |-> loop,
          trace |-> Append(tr, [ev |-> "call", fn |-> "get_file_content",
                                file |-> files[done + 1].filename])]
    ELSE [pc |-> "in_generate", loop |-> c,
          trace |-> Append(tr, Call("generate_review_comment"))]

\* lines 275-282: get_pr_files answers
FilesDone(c) ==
    /\ pc[c] = "await_files" /\ CanRun(c)
    /\ \E ok \in BOOLEAN, files \in FileLists :
         IF ~ok
         THEN /\ pc' = Upd(pc, c, "done_500")
              /\ trace' = Upd(trace, c, trace[c] \o
                    <<Ret("get_pr_files", FALSE), Raise("get_pr_files")>>)
              /\ UNCHANGED <<loop, pr_files>>
         ELSE LET n == FetchOrGenerate(c, files, 0,
                          Append(trace[c], Ret("get_pr_files", TRUE)))
              IN /\ pc' = Upd(pc, c, n.pc)
                 /\ loop' = n.loop
                 /\ trace' = Upd(trace, c, n.trace)
                 /\ pr_files' = Upd(pr_files, c, files)
    /\ UNCHANGED <<branch, file_idx, file_patch_maps, comment_text, block_idx,
                   file_suggestions>>
    /\ UNCHANGED <<mapperVars, parserVars, workerVars, extractorVars>>

\* lines 282-291: get_file_content answers for pr_files[file_idx]
ContentDone(c) ==
    /\ pc[c] = "await_content" /\ CanRun(c)
    /\ \E ok \in BOOLEAN :
         IF ~ok
         THEN /\ pc' = Upd(pc, c, "done_500")
              /\ trace' = Upd(trace, c, trace[c] \o
                    <<Ret("get_file_content", FALSE), Raise("get_file_content")>>)
              /\ UNCHANGED <<loop, file_idx, file_patch_maps>>
         ELSE \E file \in {pr_files[c][file_idx[c] + 1]} :
              \E n \in {FetchOrGenerate(c, pr_files[c], file_idx[c] + 1,
                          Append(trace[c], Ret("get_file_content", TRUE)))} :
                 /\ file_patch_maps' =
                       StoreMap(file_patch_maps, c, file.filename,
                                map_line_to_position(file.patch))
                 /\ file_idx' = Upd(file_idx, c, file_idx[c] + 1)
                 /\ pc' = Upd(pc, c, n.pc)
                 /\ loop' = n.loop
                 /\ trace' = Upd(trace, c, n.trace)
    /\ UNCHANGED <<branch, pr_files, comment_text, block_idx, file_suggestions>>
    /\ UNCHANGED <<mapperVars, parserVars, workerVars, extractorVars>>

\* lines 291-292: the blocking call returns; comment_text is the stripped
\* content; post_pr_comment is awaited
GenerateDone(c) ==
    /\ pc[c] = "in_generate" /\ loop = c
    /\ loop' = "free"
    /\ \E ok \in BOOLEAN, text \in CycleTexts :
         IF ~ok
         THEN /\ pc' = Upd(pc, c, "done_500")
              /\ trace' = Upd(trace, c, trace[c] \o
                    <<Ret("generate_review_comment", FALSE),
                      Raise("generate_review_comment")>>)
              /\ UNCHANGED comment_text
         ELSE /\ pc' = Upd(pc, c, "await_summary")
              /\ comment_text' = Upd(comment_text, c, Strip(text))
              /\ trace' = Upd(trace, c, trace[c] \o
                    <<Ret("generate_review_comment", TRUE),
                      [ev |-> "call", fn |-> "post_pr_comment",
                       body |-> Strip(text)]>>)
    /\ UNCHANGED <<branch, pr_files, file_idx, file_patch_maps, block_idx,
                   file_suggestions>>
    /\ UNCHANGED <<mapperVars, parserVars, workerVars, extractorVars>>

\* What follows the loop over blocks, given where RunBlocks stopped: the
\* await of post_inline_comment, the IndexError, or lines 343-344
\* (apply_suggestions_locally, then the await of create_new_pr).
AfterBlocks(r, applyOk) ==
    CASE r.stop = "post" -> [pc |-> "await_inline", trace |-> r.trace]
      [] r.stop = "raised" -> [pc |-> "done_500", trace |-> r.trace]
      [] r.stop = "end" ->
            IF applyOk
            THEN [pc |-> "await_new_pr",
                  trace |-> r.trace \o
                     <<Call("apply_suggestions_locally"),
                       Ret("apply_suggestions_locally", TRUE),
                       Call("create_new_pr")>>]
            ELSE [pc |-> "done_500",
                  trace |-> r.trace \o
                     <<Call("apply_suggestions_locally"),
                       Ret("apply_suggestions_locally", FALSE),
                       Raise("apply_suggestions_locally")>>]

\* lines 292-344: post_pr_comment answers; the blocks are parsed and
\* reconciled up to the first await
SummaryDone(c) ==
    /\ pc[c] = "await_summary" /\ CanRun(c)
    /\ \E ok \in BOOLEAN, applyOk \in BOOLEAN :
         IF ~ok
         THEN /\ pc' = Upd(pc, c, "done_500")
              /\ trace' = Upd(trace, c, trace[c] \o
                    <<Ret("post_pr_comment", FALSE), Raise("post_pr_comment")>>)
              /\ UNCHANGED <<block_idx, file_suggestions>>
         ELSE \E r \in {RunBlocks(file_patch_maps[c], SplitBlocks(comment_text[c]), 2,
                                   Append(trace[c], Ret("post_pr_comment", TRUE)),
                                   <<>>)} :
              \E n \in {AfterBlocks(r, applyOk)} :
                 /\ pc' = Upd(pc, c, n.pc)
                 /\ trace' = Upd(trace, c, n.trace)
                 /\ block_idx' = Upd(block_idx, c, r.block_idx)
                 /\ file_suggestions' = Upd(file_suggestions, c, r.sugg)
    /\ UNCHANGED <<loop, branch, pr_files, file_idx, file_patch_maps, comment_text>>
    /\ UNCHANGED <<mapperVars, parserVars, workerVars, extractorVars>>

\* lines 331-344: post_inline_comment answers or fails for blocks[block_idx];
\* the loop goes on with the next block
InlineDone(c) ==
    /\ pc[c] = "await_inline" /\ CanRun(c)
    /\ \E ok \in BOOLEAN, applyOk \in BOOLEAN :
         LET blocks == SplitBlocks(comment_text[c])
             f == ParseBlock(blocks[block_idx[c]])
             tr == trace[c] \o
                   (IF ok THEN <<Ret("post_inline_comment", TRUE)>>
                    ELSE <<Ret("post_inline_comment", FALSE),
                           [ev |-> "diag_post_failed", block |-> block_idx[c]]>>)
         IN IF AfterPostInline(ok) = "raised"
            THEN /\ pc' = Upd(pc, c, "done_500")
                 /\ trace' = Upd(trace, c, Append(tr, Raise("post_inline_comment")))
                 /\ UNCHANGED <<block_idx, file_suggestions>>
            ELSE \E r \in {RunBlocks(file_patch_maps[c], blocks, block_idx[c] + 1, tr,
                                      RecordSuggestion(file_suggestions[c], f))} :
                 \E n \in {AfterBlocks(r, applyOk)} :
                    /\ pc' = Upd(pc, c, n.pc)
                    /\ trace' = Upd(trace, c, n.trace)
                    /\ block_idx' = Upd(block_idx, c, r.block_idx)
                    /\ file_suggestions' = Upd(file_suggestions, c, r.sugg)
    /\ UNCHANGED <<loop, branch, pr_files, file_idx, file_patch_maps, comment_text>>
    /\ UNCHANGED <<mapperVars, parserVars, workerVars, extractorVars>>

\* lines 344-346: create_new_pr answers
NewPrDone(c) ==
    /\ pc[c] = "await_new_pr" /\ CanRun(c)
    /\ \E ok \in BOOLEAN :
         /\ pc' = Upd(pc, c, IF ok THEN "done_200" ELSE "done_500")
         /\ trace' = Upd(trace, c, trace[c] \o
               (IF ok THEN <<Ret("create_new_pr", TRUE), [ev |-> "return"]>>
                ELSE <<Ret("create_new_pr", FALSE), Raise("create_new_pr")>>))
    /\ UNCHANGED <<loop, branch, pr_files, file_idx, file_patch_maps,
                   comment_text, block_idx, file_suggestions>>
    /\ UNCHANGED <<mapperVars, parserVars, workerVars, extractorVars>>

CycleIdle ==
    /\ pc = [c \in Cycles |-> "off"]
    /\ loop = "free"
    /\ branch = [c \in Cycles |-> <<>>]
    /\ pr_files = [c \in Cycles |-> <<>>]
    /\ file_idx = [c \in Cycles |-> 0]
    /\ file_patch_maps = [c \in Cycles |-> <<>>]
    /\ comment_text = [c \in Cycles |-> <<>>]
    /\ block_idx = [c \in Cycles |-> 0]
    /\ file_suggestions = [c \in Cycles |-> <<>>]
    /\ trace = [c \in Cycles |-> <<>>]

\* one delivery on its own: no second cycle is ever delivered
CycleInitAlone ==
    /\ pc = [c \in Cycles |-> IF c = "c1" THEN "idle" ELSE "off"]
    /\ loop = "free"
    /\ branch = [c \in Cycles |-> <<>>]
    /\ pr_files = [c \in Cycles |-> <<>>]
    /\ file_idx = [c \in Cycles |-> 0]
    /\ file_patch_maps = [c \in Cycles |-> <<>>]
    /\ comment_text = [c \in Cycles |-> <<>>]
    /\ block_idx = [c \in Cycles |-> 0]
    /\ file_suggestions = [c \in Cycles |-> <<>>]
    /\ trace = [c \in Cycles |-> <<>>]

(***************************************************************************)
(* review(), handle_review and call_litellm (src/review/review_agent.py):  *)
(* one request, and the worker thread it may start.                        *)
(***************************************************************************)
max_retries == 3

NoRequest == [method |-> "none"]

\* the requests, by what review() reads of them
Requests ==
    {[method |-> "GET"],
     [method |-> "POST", payload |-> "unparsable"],
     [method |-> "POST", payload |-> "empty"]}
    \cup {[method |-> "POST", payload |-> "dict", event |-> e,
           has_pull_request |-> hp, has_action |-> ha, action |-> a,
           has_ids |-> hi, clone_fields |-> cf] :
            e \in {"pull_request", "push"}, hp \in BOOLEAN, ha \in BOOLEAN,
            a \in {"opened", "synchronize", "reopened", "closed"},
            hi \in BOOLEAN,
            cf \in {"ok", "no_clone_url", "no_base_ref"}}

\* lines 506-575: the status review() answers with, and whether it starts
\* the worker thread
Review(req) ==
    IF req.method = "GET" THEN [status |-> 200, worker |-> FALSE]
    ELSE IF req.payload = "unparsable" THEN [status |-> 400, worker |-> FALSE]
    ELSE IF req.payload = "empty" THEN [status |-> 400, worker |-> FALSE]
    ELSE IF req.event # "pull_request" THEN [status |-> 200, worker |-> FALSE]
    ELSE IF ~req.has_pull_request \/ ~req.has_action
    THEN [status |-> 200, worker |-> FALSE]
    ELSE IF req.action \notin {"opened", "synchronize", "reopened"}
    THEN [status |-> 200, worker |-> FALSE]
    ELSE IF ~req.has_ids THEN [status |-> 500, worker |-> FALSE]
    ELSE [status |-> 200, worker |-> TRUE]

WorkerInit ==
    /\ request = NoRequest
    /\ response = 0
    /\ worker_pc = "none"
    /\ repo_path = "None"
    /\ tmp_dirs = {}
    /\ attempt = 0
    /\ attempts_made = 0
    /\ outcomes = <<>>
    /\ sleeps = <<>>
    /\ llm_out = "none"
    /\ comments = <<>>

WorkerIdle == WorkerInit

\* review() up to line 562: a request that is turned away is answered at
\* once; an accepted one has its thread started before the answer is built
ReviewReceive ==
    /\ request = NoRequest
    /\ \E req \in Requests :
         /\ request' = req
         /\ response' = IF Review(req).worker THEN 0 ELSE Review(req).status
         /\ worker_pc' = IF Review(req).worker THEN "start" ELSE "none"
    /\ UNCHANGED <<repo_path, tmp_dirs, attempt, attempts_made, outcomes, sleeps, llm_out,
                   comments>>
    /\ UNCHANGED <<mapperVars, parserVars, cycleVars, extractorVars>>

\* a review() that joins the worker thread before it answers
CanRespondAfterJoin(wpc) == wpc = "returned"

\* line 562: Thread(...).start() returns once the thread runs; review() goes
\* on to line 564 whatever the worker is doing
CanRespond(wpc) == TRUE

\* lines 564-569: the acknowledgement of an accepted request
ReviewRespond ==
    /\ request # NoRequest /\ response = 0
    /\ CanRespond(worker_pc)
    /\ response' = Review(request).status
    /\ UNCHANGED <<request, worker_pc, repo_path, tmp_dirs, attempt,
                   attempts_made, outcomes, sleeps, llm_out, comments>>
    /\ UNCHANGED <<mapperVars, parserVars, cycleVars, extractorVars>>

\* lines 387-400: the fields of the payload.  A KeyError reaches the except
\* of line 461, which posts an error comment when repo_name and pr_number
\* are both assigned already.
WorkerStart ==
    /\ worker_pc = "start"
    /\ worker_pc' = IF request.clone_fields = "ok" THEN "health" ELSE "finally"
    /\ comments' = IF request.clone_fields = "no_base_ref"
                   THEN Append(comments, "error") ELSE comments
    /\ UNCHANGED <<request, response, repo_path, tmp_dirs, attempt,
                   attempts_made, outcomes, sleeps, llm_out>>
    /\ UNCHANGED <<mapperVars, parserVars, cycleVars, extractorVars>>

\* lines 402-411: check_litellm_health
WorkerHealth ==
    /\ worker_pc = "health"
    /\ \E h \in {"healthy", "unhealthy", "raise"} :
         /\ worker_pc' = IF h = "healthy" THEN "clone" ELSE "finally"
         /\ comments' = IF h = "healthy" THEN comments ELSE Append(comments, "error")
    /\ UNCHANGED <<request, response, repo_path, tmp_dirs, attempt,
                   attempts_made, outcomes, sleeps, llm_out>>
    /\ UNCHANGED <<mapperVars, parserVars, cycleVars, extractorVars>>

\* clone_repo (lines 32-63) for one outcome of mkdtemp, git clone and git
\* checkout: the directory it made, and the path it returned ("None" when
\* it raised)
CloneRepo(outcome) ==
    CASE outcome = "mkdtemp_fail" -> [made |-> {}, returned |-> "None"]
      [] outcome = "clone_fail" -> [made |-> {"tmp1"}, returned |-> "None"]
      [] outcome = "checkout_fail" -> [made |-> {"tmp1"}, returned |-> "None"]
      [] outcome = "ok" -> [made |-> {"tmp1"}, returned |-> "tmp1"]

\* line 413: repo_path = clone_repo(...); an exception of clone_repo leaves
\* repo_path None and reaches the except of line 461
WorkerClone ==
    /\ worker_pc = "clone"
    /\ \E o \in {"mkdtemp_fail", "clone_fail", "checkout_fail", "ok"} :
         /\ tmp_dirs' = tmp_dirs \cup CloneRepo(o).made
         /\ repo_path' = CloneRepo(o).returned
         /\ worker_pc' = IF o = "ok" THEN "diff" ELSE "finally"
         /\ comments' = IF o = "ok" THEN comments ELSE Append(comments, "error")
    /\ UNCHANGED <<request, response, attempt, attempts_made, outcomes, sleeps, llm_out>>
    /\ UNCHANGED <<mapperVars, parserVars, cycleVars, extractorVars>>

\* lines 414-420: get_repo_context, get_diff, the empty diff
WorkerDiff ==
    /\ worker_pc = "diff"
    /\ \E d \in {"empty", "changes"} :
         /\ worker_pc' = IF d = "empty" THEN "finally" ELSE "llm"
         /\ comments' = IF d = "empty" THEN Append(comments, "info") ELSE comments
    /\ attempt' = 0
    /\ UNCHANGED <<request, response, repo_path, tmp_dirs, attempts_made, outcomes, sleeps,
                   llm_out>>
    /\ UNCHANGED <<mapperVars, parserVars, cycleVars, extractorVars>>

\* a retry test that is off by one
ShouldRetryOffByOne(a) == a < max_retries

\* lines 296, 306, 320: if attempt < max_retries - 1
ShouldRetry(a) == a < max_retries - 1

\* a loop whose except clause for HTTPStatusError waits and retries like
\* the other three
AttemptRetriesStatus(a, outcome) ==
    IF outcome = "ok" THEN [next |-> "returned", slept |-> <<>>]
    ELSE IF ShouldRetry(a)
    THEN [next |-> IF a + 1 < max_retries THEN "loop" ELSE "fell_out",
          slept |-> <<(a + 1) * 5>>]
    ELSE [next |-> "raised", slept |-> <<>>]

\* One iteration of the loop of line 269: a request, and what its outcome
\* leads to.  next is "loop" (another iteration), "returned", "raised" or
\* "fell_out" (the loop ended with neither: the function returns None).
Attempt(a, outcome) ==
    IF outcome = "ok" THEN [next |-> "returned", slept |-> <<>>]
    ELSE IF outcome = "http_status" THEN [next |-> "raised", slept |-> <<>>]
    ELSE IF ShouldRetry(a)
    THEN [next |-> IF a + 1 < max_retries THEN "loop" ELSE "fell_out",
          slept |-> <<(a + 1) * 5>>]
    ELSE [next |-> "raised", slept |-> <<>>]

\* line 449 and lines 269-325: call_litellm sends one request
LlmAttempt ==
    /\ worker_pc = "llm"
    /\ \E o \in {"ok", "connect_timeout", "read_timeout", "http_status", "other"} :
         LET r == Attempt(attempt, o) IN
         /\ attempts_made' = attempts_made + 1
         /\ outcomes' = Append(outcomes, o)
         /\ sleeps' = sleeps \o r.slept
         /\ attempt' = IF r.next = "loop" THEN attempt + 1 ELSE attempt
         /\ llm_out' = IF r.next = "loop" THEN llm_out ELSE r.next
         /\ worker_pc' = IF r.next = "loop" THEN "llm" ELSE "llm_done"
    /\ UNCHANGED <<request, response, repo_path, tmp_dirs, comments>>
    /\ UNCHANGED <<mapperVars, parserVars, cycleVars, extractorVars>>

\* an inner except clause that posts its error comment and raises again, so
\* that the except of line 461 posts a second one
LlmCommentsReraised(out) ==
    IF out = "raised" THEN <<"error", "error">> ELSE <<"review">>

\* lines 448-459: the comment posted after call_litellm: the review comment
\* when it returned, the error comment of the inner except when it raised
LlmComments(out) == IF out = "raised" THEN <<"error">> ELSE <<"review">>

\* lines 450-459: the review comment, or the error comment of the except
WorkerAfterLlm ==
    /\ worker_pc = "llm_done"
    /\ comments' = comments \o LlmComments(llm_out)
    /\ worker_pc' = "finally"
    /\ UNCHANGED <<request, response, repo_path, tmp_dirs, attempt, attempts_made, outcomes,
                   sleeps, llm_out>>
    /\ UNCHANGED <<mapperVars, parserVars, cycleVars, extractorVars>>

\* lines 473-482: the finally clause
WorkerFinally ==
    /\ worker_pc = "finally"
    /\ tmp_dirs' = IF repo_path # "None" /\ repo_path \in tmp_dirs
                   THEN tmp_dirs \ {repo_path} ELSE tmp_dirs
    /\ worker_pc' = "returned"
    /\ UNCHANGED <<request, response, repo_path, attempt, attempts_made, outcomes, sleeps,
                   llm_out, comments>>
    /\ UNCHANGED <<mapperVars, parserVars, cycleVars, extractorVars>>

(***************************************************************************)
(* extract_changed_lines (src/main.py 26-42) on its own, one loop          *)
(* iteration per step.                                                     *)
(***************************************************************************)
\* line[1:].strip()
Content(line) == Strip(Tail(line))

\* line.startswith("-") and not line.startswith("---")
IsRemovedLine(line) ==
    StartsWith(line, <<"-">>) /\ ~StartsWith(line, <<"-", "-", "-">>)

\* line.startswith("+") and not line.startswith("+++")
IsAddedLine(line) ==
    StartsWith(line, <<"+">>) /\ ~StartsWith(line, <<"+", "+", "+">>)

\* lines 31-32: changes = []; prev_line = None
ExtractInit == [prev_line |-> None, changes |-> <<>>]

\* an extractor that keeps the pending removal after it has paired it
ExtractStepKeepsPending(st, line) ==
    IF IsRemovedLine(line)
    THEN [st EXCEPT !.prev_line = Some(Content(line))]
    ELSE IF IsAddedLine(line)
    THEN IF Truthy(st.prev_line)
         THEN [st EXCEPT !.changes = Append(@, <<st.prev_line.val, Content(line)>>)]
         ELSE [st EXCEPT !.changes = Append(@, <<<<>>, Content(line)>>)]
    ELSE st

\* an extractor that keeps the first removed line of a run as the pending one
ExtractStepFirstRemoved(st, line) ==
    IF IsRemovedLine(line)
    THEN IF Truthy(st.prev_line) THEN st
         ELSE [st EXCEPT !.prev_line = Some(Content(line))]
    ELSE IF IsAddedLine(line)
    THEN IF Truthy(st.prev_line)
         THEN [prev_line |-> None,
               changes |-> Append(st.changes, <<st.prev_line.val, Content(line)>>)]
         ELSE [st EXCEPT !.changes = Append(@, <<<<>>, Content(line)>>)]
    ELSE st

\* lines 34-41: one iteration of the loop over lines
ExtractStep(st, line) ==
    IF IsRemovedLine(line)
    THEN [st EXCEPT !.prev_line = Some(Content(line))]
    ELSE IF IsAddedLine(line)
    THEN IF Truthy(st.prev_line)
         THEN [prev_line |-> None,
               changes |-> Append(st.changes, <<st.prev_line.val, Content(line)>>)]
         ELSE [st EXCEPT !.changes = Append(@, <<<<>>, Content(line)>>)]
    ELSE st

RECURSIVE ExtractScan(_, _)
ExtractScan(st, lines) ==
    IF lines = <<>> THEN st
    ELSE ExtractScan(ExtractStep(st, Head(lines)), Tail(lines))

extract_changed_lines(text) == ExtractScan(ExtractInit, SplitLines(text)).changes

\* "-q": a second removed line; "- ": a removed line of whitespace only
removedLineQ == <<"-", "q">>
removedBlank == <<"-", " ">>

\* the lines a diff text of the extractor specification is made of
DiffLines ==
    {removedLine, removedLineQ, removedBlank, addedLine, contextLine, hunkAt1,
     plusHeader, minusHeader}

\* the diff texts: up to n lines joined by newlines
DiffTexts(n) == {JoinLines(ls) : ls \in SeqsUpTo(DiffLines, n)}

ExtractorIdle ==
    /\ diff_text = <<>> /\ ex_lines = <<>> /\ ex_i = 0
    /\ prev_line = ExtractInit.prev_line /\ changes = ExtractInit.changes
    /\ ex_pc = "idle"

\* lines 30-32: the call with one diff text
ExtractorInit ==
    /\ diff_text \in DiffTexts(MaxPatchLines)
    /\ ex_lines = SplitLines(diff_text)
    /\ ex_i = 0
    /\ prev_line = ExtractInit.prev_line
    /\ changes = ExtractInit.changes
    /\ ex_pc = "scan"

\* lines 33-41: one iteration of the loop
ExtractorScanLine ==
    /\ ex_pc = "scan"
    /\ ex_i < Len(ex_lines)
    /\ LET st == ExtractStep([prev_line |-> prev_line, changes |-> changes],
                             ex_lines[ex_i + 1])
       IN /\ prev_line' = st.prev_line
          /\ changes' = st.changes
    /\ ex_i' = ex_i + 1
    /\ UNCHANGED <<diff_text, ex_lines, ex_pc>>
    /\ UNCHANGED <<mapperVars, parserVars, cycleVars, workerVars>>

\* line 42: return changes
ExtractorReturn ==
    /\ ex_pc = "scan"
    /\ ex_i = Len(ex_lines)
    /\ ex_pc' = "done"
    /\ UNCHANGED <<diff_text, ex_lines, ex_i, prev_line, changes>>
    /\ UNCHANGED <<mapperVars, parserVars, cycleVars, workerVars>>

(***************************************************************************)
(* The specifications.                                                     *)
(***************************************************************************)
ExtractorNext == ExtractorScanLine \/ ExtractorReturn
InitExtractor == ExtractorInit /\ MapperIdle /\ ParserIdle /\ CycleIdle /\ WorkerIdle
SpecExtractor == InitExtractor /\ [][ExtractorNext]_vars

MapperNext == MapperScanLine \/ MapperReturn \/ MapperCallAgain
InitMapper ==
    MapperInit /\ ParserIdle /\ CycleIdle /\ WorkerIdle /\ ExtractorIdle
SpecMapper == InitMapper /\ [][MapperNext]_vars

ParserNext == ParserSplit \/ ParserBlockHead \/ ParserFieldLine \/ ParserBlockEnd
InitParser ==
    ParserInit /\ MapperIdle /\ CycleIdle /\ WorkerIdle /\ ExtractorIdle
SpecParser == InitParser /\ [][ParserNext]_vars

CycleNext ==
    \E c \in Cycles :
       \/ Deliver(c) \/ FindPrDone(c) \/ MetadataDone(c) \/ FilesDone(c)
       \/ ContentDone(c) \/ GenerateDone(c) \/ SummaryDone(c)
       \/ InlineDone(c) \/ NewPrDone(c)
InitCycle ==
    CycleInit /\ MapperIdle /\ ParserIdle /\ WorkerIdle /\ ExtractorIdle
SpecCycle == InitCycle /\ [][CycleNext]_vars

\* the handler with a single delivery
InitCycleAlone ==
    CycleInitAlone /\ MapperIdle /\ ParserIdle /\ WorkerIdle /\ ExtractorIdle
SpecCycleAlone == InitCycleAlone /\ [][CycleNext]_vars

WorkerNext ==
    \/ ReviewReceive \/ ReviewRespond \/ WorkerStart \/ WorkerHealth
    \/ WorkerClone \/ WorkerDiff \/ LlmAttempt \/ WorkerAfterLlm \/ WorkerFinally
InitWorker ==
    WorkerInit /\ MapperIdle /\ ParserIdle /\ CycleIdle /\ ExtractorIdle
SpecWorker == InitWorker /\ [][WorkerNext]_vars

(***************************************************************************)
(* Reading a cycle's trace.                                                *)
(***************************************************************************)
IsCall(e, fn) == e.ev = "call" /\ e.fn = fn
IsRet(e, fn) == e.ev = "ret" /\ e.fn = fn
IsRaise(e, at) == e.ev = "raise" /\ e.at = at
IsInlineCall(e) == IsCall(e, "post_inline_comment")

Idx(c) == 1..Len(trace[c])

\* the indices of the events of cycle c that satisfy P
Where(c, P(_)) == {j \in Idx(c) : P(trace[c][j])}

IsFinding(e) == e.ev = "finding"
IsDiag(e) == e.ev = "diag"

\* the findings cycle c has parsed, by the index of their block
FindingBlocks(c) == {trace[c][j].block : j \in Where(c, IsFinding)}

(***************************************************************************)
(* C1.  Parser robustness: for every review text, the empty string, text   *)
(* with no "File:" marker, text with an unterminated code fence and text   *)
(* in which a "File:" marker is followed by nothing but whitespace or by   *)
(* another marker included, the parsing loop never raises.                 *)
(* The code raises IndexError at lines[0] for a marker followed by         *)
(* nothing but whitespace or by another marker.                            *)
(***************************************************************************)
C1_ParserNeverRaises == ps_pc # "raised"

(***************************************************************************)
(* C2.  Mapper monotonicity.  As claimed, for every patch: for any two     *)
(* keys a < b of the returned map, map[a] < map[b].                        *)
(***************************************************************************)
Monotone(m) == \A a, b \in DOMAIN m : a < b => m[a] < m[b]

C2_MonotoneEveryPatch == map_pc = "done" => Monotone(line_map)

\* every matched hunk header of the lines has a post-image start greater
\* than every line number recorded before it
AscendingHunks(lines) ==
    \A i \in 1..Len(lines) :
        (StartsWith(lines[i], <<"@", "@">>) /\ HunkMatch(lines[i]).ok)
        => \A k \in DOMAIN MapScan(MapInit, SubSeq(lines, 1, i - 1)).line_map :
              k < HunkMatch(lines[i]).start

\* C2, amended: for every patch whose matched hunk headers each start after
\* every line number recorded before them, the returned map is strictly
\* increasing: for keys a < b, map[a] < map[b].
C2_MonotoneAscendingHunks ==
    (map_pc = "done" /\ AscendingHunks(patch_lines)) => Monotone(line_map)

\* two hunks in ascending order, each with a recorded line
C2_Witness ==
    /\ map_pc = "done"
    /\ AscendingHunks(patch_lines)
    /\ Cardinality({i \in 1..Len(patch_lines) : HunkMatch(patch_lines[i]).ok}) >= 2
    /\ Cardinality(DOMAIN line_map) >= 2

(***************************************************************************)
(* C3.  Reconciler safety: for every parsed finding whose line number is   *)
(* absent, whose file has no entry in file_patch_maps or whose line number *)
(* is not a key of the file's map, post_inline_comment is called zero      *)
(* times for the finding and exactly one diagnostic is recorded for it,    *)
(* naming its file and line.                                               *)
(***************************************************************************)
C3_UnmappedNoPostOneDiagnostic ==
    \A c \in Cycles : \A j \in Where(c, IsFinding) :
        LET e == trace[c][j] IN
        ~Mapped(file_patch_maps[c], e.finding)
        => /\ {k \in Where(c, IsInlineCall) : trace[c][k].block = e.block} = {}
           /\ Cardinality({k \in Where(c, IsDiag) : trace[c][k].block = e.block}) = 1
           /\ \A k \in Where(c, IsDiag) :
                 trace[c][k].block = e.block
                 => /\ trace[c][k].file = e.finding.current_file
                    /\ trace[c][k].line = e.finding.line_num

\* some finding of cycle c is unmapped for the given reason
UnmappedFor(c, why) ==
    \E j \in Where(c, IsFinding) :
        LET f == trace[c][j].finding IN
        CASE why = "absent" -> ~f.line_num.some
          [] why = "no_file" -> f.line_num.some /\ f.current_file \notin DOMAIN file_patch_maps[c]
          [] why = "no_key" -> /\ f.line_num.some
                               /\ f.current_file \in DOMAIN file_patch_maps[c]
                               /\ f.line_num.val \notin DOMAIN file_patch_maps[c][f.current_file]

\* the three ways of being unmapped have all happened
C3_Witness ==
    /\ \E c \in Cycles : UnmappedFor(c, "absent")
    /\ \E c \in Cycles : UnmappedFor(c, "no_file")
    /\ \E c \in Cycles : UnmappedFor(c, "no_key")

(***************************************************************************)
(* C4.  Failure isolation of inline posting: a failure of                  *)
(* post_inline_comment is caught; the cycle does not end with it, the      *)
(* later blocks are still parsed and reconciled, and the number of post    *)
(* attempts equals the number of mapped findings whichever posts fail.     *)
(***************************************************************************)
MappedFindings(c) ==
    {j \in Where(c, IsFinding) : Mapped(file_patch_maps[c], trace[c][j].finding)}

IsPostRaise(e) == IsRaise(e, "post_inline_comment")
IsParseRaise(e) == IsRaise(e, "parse")
IsSummaryOk(e) == IsRet(e, "post_pr_comment") /\ e.ok
IsInlineFailed(e) == IsRet(e, "post_inline_comment") /\ ~e.ok

\* the loop over the blocks is over and no block raised
LoopComplete(c) ==
    /\ Where(c, IsSummaryOk) # {}
    /\ pc[c] # "await_inline"
    /\ Where(c, IsParseRaise) = {}

C4_PostFailureIsolated ==
    \A c \in Cycles :
        /\ Where(c, IsPostRaise) = {}
        /\ Cardinality(Where(c, IsInlineCall)) = Cardinality(MappedFindings(c))
        /\ LoopComplete(c)
           => FindingBlocks(c) = 2..Len(SplitBlocks(comment_text[c]))

\* a post failed and the finding of a later block was posted all the same
C4_Witness ==
    \E c \in Cycles : \E j \in Where(c, IsInlineFailed) :
        \E k \in Where(c, IsInlineCall) : k > j /\ LoopComplete(c)

(***************************************************************************)
(* C5.  Step ordering within one cycle: every changed-file fetch is        *)
(* complete before review generation starts; review generation is complete *)
(* before any finding is reconciled; the summary comment is posted before  *)
(* any inline comment; an inline comment is posted only after its own      *)
(* finding has been reconciled to a position.                              *)
(***************************************************************************)
IsGenerateCall(e) == IsCall(e, "generate_review_comment")
IsGenerateOk(e) == IsRet(e, "generate_review_comment") /\ e.ok
IsFilesOk(e) == IsRet(e, "get_pr_files") /\ e.ok
IsContentOk(e) == IsRet(e, "get_file_content") /\ e.ok
IsFetch(e) ==
    e.ev \in {"call", "ret"} /\ e.fn \in {"get_pr_files", "get_file_content"}
IsReconcile(e) == IsFinding(e) \/ IsDiag(e) \/ IsInlineCall(e)

Before(c, P(_), j) == {k \in Where(c, P) : k < j}

C5_StepOrdering ==
    \A c \in Cycles :
        /\ \A j \in Where(c, IsGenerateCall) :
              /\ Before(c, IsFilesOk, j) # {}
              /\ Cardinality(Before(c, IsContentOk, j)) = Len(pr_files[c])
              /\ \A k \in Where(c, IsFetch) : k < j
        /\ \A j \in Where(c, IsReconcile) : Before(c, IsGenerateOk, j) # {}
        /\ \A j \in Where(c, IsInlineCall) :
              /\ Before(c, IsSummaryOk, j) # {}
              /\ j > 1
              /\ IsFinding(trace[c][j - 1])
              /\ trace[c][j - 1].block = trace[c][j].block
              /\ Mapped(file_patch_maps[c], trace[c][j - 1].finding)
              /\ trace[c][j].position =
                    file_patch_maps[c][trace[c][j].path]
                                   [trace[c][j - 1].finding.line_num.val]

\* a cycle that fetched two files, posted an inline comment and returned
C5_Witness ==
    \E c \in Cycles :
        /\ pc[c] = "done_200"
        /\ Len(pr_files[c]) = 2
        /\ Where(c, IsInlineCall) # {}

(***************************************************************************)
(* C6.  Fatal orchestration failure: when fetching the PR files, fetching  *)
(* a file's content or generating the review fails, the cycle posts        *)
(* exactly one error comment on the pull request and no summary and no     *)
(* inline comment afterwards.                                              *)
(* webhook_handler has no handler for these failures: the exception        *)
(* leaves it and nothing is posted.                                        *)
(***************************************************************************)
IsFatal(e) ==
    e.ev = "raise"
    /\ e.at \in {"get_pr_files", "get_file_content", "generate_review_comment"}
IsCommentCall(e) == IsCall(e, "post_pr_comment")

After(c, P(_), j) == {k \in Where(c, P) : k > j}

C6_FatalFailureOneErrorComment ==
    \A c \in Cycles : \A j \in Where(c, IsFatal) :
        /\ Cardinality(After(c, IsCommentCall, j)) = 1
        /\ After(c, IsInlineCall, j) = {}

(***************************************************************************)
(* C8.  Non-blocking network steps: while one cycle is inside a            *)
(* network-bound step (fetching files, generating the review, posting      *)
(* comments), another delivery in the same process can make progress.      *)
(* generate_review_comment calls the synchronous OpenAI client inside the  *)
(* coroutine, so the event loop is held for the whole request.             *)
(***************************************************************************)
NetworkSteps ==
    {"await_files", "await_content", "in_generate", "await_summary", "await_inline"}

\* a cycle that has something to run: a delivery to take, or an answer to
\* resume on
Resumable(d) ==
    pc[d] \in {"idle", "await_find_pr", "await_metadata", "await_files",
               "await_content", "await_summary", "await_inline", "await_new_pr"}

C8_NetworkStepsDoNotBlock ==
    \A c, d \in Cycles :
        (c # d /\ pc[c] \in NetworkSteps /\ Resumable(d)) => CanRun(d)

(***************************************************************************)
(* C10.  No shared state between cycles: with two cycles interleaved at    *)
(* their await points, the file_patch_maps, findings and file_suggestions  *)
(* of a cycle are what that cycle made of its own pr_files and its own     *)
(* comment_text, and each inline comment a cycle posts has a position      *)
(* taken from a map the same cycle built.                                  *)
(***************************************************************************)
\* file_patch_maps after the first n files of a cycle's own pr_files
RECURSIVE OwnMaps(_, _)
OwnMaps(files, n) ==
    IF n = 0 THEN <<>>
    ELSE MapPut(OwnMaps(files, n - 1), files[n].filename,
                map_line_to_position(files[n].patch))

\* file_suggestions after blocks[2..k] of a cycle's own comment_text
RECURSIVE OwnSuggestions(_, _)
OwnSuggestions(blocks, k) ==
    IF k < 2 THEN <<>>
    ELSE RecordSuggestion(OwnSuggestions(blocks, k - 1), ParseBlock(blocks[k]))

\* the last block whose loop iteration is complete
Handled(c) ==
    IF pc[c] = "await_inline" THEN block_idx[c] - 1
    ELSE Cardinality(FindingBlocks(c)) + 1

C10_CycleLocalState ==
    \A c \in Cycles : \A blocks \in {SplitBlocks(comment_text[c])} :
        /\ file_patch_maps[c] = OwnMaps(pr_files[c], file_idx[c])
        /\ file_suggestions[c] = OwnSuggestions(blocks, Handled(c))
        /\ \A j \in Where(c, IsFinding) :
              trace[c][j].finding = ParseBlock(blocks[trace[c][j].block])
        /\ Where(c, IsInlineCall) # {}
           => \A own \in {OwnMaps(pr_files[c], Len(pr_files[c]))} :
              \A j \in Where(c, IsInlineCall) :
                 LET e == trace[c][j] IN
                 e.position = own[e.path][ParseBlock(blocks[e.block]).line_num.val]

\* both cycles are waiting for an inline comment on the same file and line,
\* each at the position of its own patch
C10_Witness ==
    \E c, d \in Cycles :
        /\ c # d /\ pc[c] = "await_inline" /\ pc[d] = "await_inline"
        /\ LET e == trace[c][Len(trace[c])]
               g == trace[d][Len(trace[d])]
           IN /\ e.path = g.path
              /\ ParseBlock(SplitBlocks(comment_text[c])[e.block]).line_num =
                 ParseBlock(SplitBlocks(comment_text[d])[g.block]).line_num
              /\ e.position # g.position

(***************************************************************************)
(* C7.  Worker temp-directory cleanup: on every path through               *)
(* handle_review, every temporary directory created during the cycle has   *)
(* been deleted when handle_review returns.                                *)
(* clone_repo makes the directory and, when git clone or git checkout      *)
(* fails, raises without removing it; handle_review's repo_path is still   *)
(* None, so its finally clause removes nothing.                            *)
(***************************************************************************)
C7_TempDirsDeleted == worker_pc = "returned" => tmp_dirs = {}

(***************************************************************************)
(* C9.  Bounded retry: call_litellm sends at most max_retries requests     *)
(* and then ends by returning the content of a successful attempt or by    *)
(* raising; it never leaves the loop without either.                       *)
(***************************************************************************)
C9_BoundedRetry ==
    /\ attempts_made <= max_retries
    /\ worker_pc = "llm" => attempts_made < max_retries
    /\ llm_out # "fell_out"
    /\ worker_pc \in {"llm_done"} => llm_out \in {"returned", "raised"}

\* three attempts failed and the third raised
C9_Witness ==
    /\ attempts_made = max_retries
    /\ Len(sleeps) = max_retries - 1
    /\ llm_out = "raised"

(***************************************************************************)
(* C11.  Immediate acknowledgement: for an accepted pull_request event,    *)
(* review() returns its 200 "processing" acknowledgement without waiting   *)
(* for any step of handle_review: while the acknowledgement is pending it  *)
(* can be returned wherever the worker is, and whatever the worker does,   *)
(* failures included, the acknowledgement is 200.                          *)
(***************************************************************************)
Accepted == request # NoRequest /\ Review(request).worker

C11_ImmediateAcknowledgement ==
    Accepted =>
        /\ response \in {0, 200}
        /\ response = 0 => ENABLED ReviewRespond

\* acknowledged while the worker has not run a single step
C11_Witness == Accepted /\ response = 200 /\ worker_pc = "start"

(***************************************************************************)
(* C12.  Mapper exclusion: for every patch, every value of the map is the  *)
(* position of a line beginning with "+" or with a space, so never the     *)
(* position of a line beginning with "-"; and scanning a line beginning    *)
(* with "-" leaves new_line_num and the map unchanged.                     *)
(***************************************************************************)
FirstChar(line) == IF line = <<>> THEN "" ELSE line[1]

\* the mapper is about to scan a line
Scanning == map_pc = "scan" /\ scanned < Len(patch_lines)

C12_MapperExclusion ==
    [][/\ \A k \in DOMAIN line_map' :
            /\ line_map'[k] \in 1..scanned'
            /\ FirstChar(patch_lines'[line_map'[k]]) \in {"+", " "}
       /\ (Scanning /\ FirstChar(patch_lines[scanned + 1]) = "-")
            => (new_line_num' = new_line_num /\ line_map' = line_map)]_vars

\* a removed line has been scanned and a later line is in the map
C12_Witness ==
    \E i \in 1..scanned :
        /\ FirstChar(patch_lines[i]) = "-"
        /\ \E k \in DOMAIN line_map : line_map[k] > i

(***************************************************************************)
(* C13.  Extractor adjacency: extract_changed_lines emits a pair with a    *)
(* non-empty removed text only when the line just before the added line    *)
(* is that removed line; a removed line separated from the next added      *)
(* line by a context line or a hunk header is not paired with it.          *)
(* prev_line is cleared only when an added line consumes it, so it         *)
(* survives every line in between.                                         *)
(***************************************************************************)
C13_ExtractorAdjacency ==
    [][(Len(changes') > Len(changes) /\ changes'[Len(changes')][1] # <<>>)
         => /\ ex_i >= 1
            /\ IsRemovedLine(ex_lines[ex_i])
            /\ Content(ex_lines[ex_i]) = changes'[Len(changes')][1]]_vars

(***************************************************************************)
(* C14.  Dropped findings stay dropped: a finding that misses the          *)
(* diff-position lookup (unknown file, or line not in the file's map) has  *)
(* no effect other than its diagnostic; it contributes no entry to         *)
(* file_suggestions, so apply_suggestions_locally replaces no line for it. *)
(* Lines 340-341 run after the if/else of line 326, for mapped and         *)
(* unmapped findings alike.                                                *)
(***************************************************************************)
HasSuggestion(sugg, file, line) ==
    file \in DOMAIN sugg /\ line.some /\ line.val \in DOMAIN sugg[file]

C14_DroppedFindingNoSuggestion ==
    \A c \in Cycles : \A j \in Where(c, IsDiag) :
        ~HasSuggestion(file_suggestions[c], trace[c][j].file, trace[c][j].line)

(***************************************************************************)
(* C15.  Mapper determinism: every invocation of map_line_to_position on   *)
(* the same patch text returns the same map, the map that is a function    *)
(* of the patch alone; nothing a previous call left behind it changes the  *)
(* result.                                                                 *)
(***************************************************************************)
C15_MapperDeterminism ==
    map_results # <<>> =>
        \E m \in {map_line_to_position(patch)} :
            \A i \in 1..Len(map_results) : map_results[i] = m

\* two calls have returned a map that is not empty
C15_Witness == Len(map_results) >= 2 /\ map_results[2] # <<>>

(***************************************************************************)
(* C16.  File-header lines in the mapper: a patch line beginning with      *)
(* "---" or "+++" increments position by one, adds no entry to the map     *)
(* and does not change new_line_num.                                       *)
(* A line beginning with "+++" begins with "+": line 69 takes it for an    *)
(* added line, counts it and records it.                                   *)
(***************************************************************************)
IsFileHeader(line) ==
    StartsWith(line, <<"-", "-", "-">>) \/ StartsWith(line, <<"+", "+", "+">>)

C16_FileHeaderLines ==
    [][(Scanning /\ IsFileHeader(patch_lines[scanned + 1]))
         => /\ position' = position + 1
            /\ line_map' = line_map
            /\ new_line_num' = new_line_num]_vars

(***************************************************************************)
(* C17.  Code-fence capture in the parser: for a block with a line whose   *)
(* trimmed content starts with the suggestion fence and a later line       *)
(* whose trimmed content is exactly the closing fence, suggested_code is   *)
(* the newline-join of every line strictly between them, lines that        *)
(* begin with "Line:", "Severity:", "Issue:" or "Suggestion:" included,    *)
(* and those lines do not change the finding's fields.                     *)
(* The prefix tests of lines 307-317 come before the fence tests, so such  *)
(* a line sets a field and is not captured.                                *)
(***************************************************************************)
IsFenceOpen(line) == StartsWith(Strip(line), sFenceOpen)
IsFenceClose(line) == Strip(line) = sFence

\* the blocks with one opening fence at o and its closing fence at k
OneFence(lines, o, k) ==
    /\ o \in 2..Len(lines) /\ k \in 2..Len(lines) /\ o < k
    /\ IsFenceOpen(lines[o]) /\ IsFenceClose(lines[k])
    /\ \A i \in 2..Len(lines) : IsFenceOpen(lines[i]) => i = o
    /\ \A i \in (o + 1)..(k - 1) : ~IsFenceClose(lines[i])

\* the code with or without the newline after its last line
SameCode(code, between) ==
    code = JoinLines(between) \/ code = JoinLines(between) \o <<NL>>

C17_FenceCapture ==
    \A n \in 1..Len(ps_findings) :
        LET lines == BlockLines(ps_blocks[n + 1])
            f == ps_findings[n]
        IN \A o, k \in 2..Len(lines) :
             OneFence(lines, o, k) =>
               LET outside == ParseLines(ParseInit,
                                 SubSeq(lines, 2, o - 1)
                                 \o SubSeq(lines, k + 1, Len(lines)))
               IN /\ SameCode(f.suggestion_code, SubSeq(lines, o + 1, k - 1))
                  /\ f.line_num = outside.line_num
                  /\ f.severity = outside.severity
                  /\ f.issue = outside.issue
                  /\ f.suggestion = outside.suggestion

(***************************************************************************)
(* C18.  Unmapped findings are not in the summary: the body posted by      *)
(* post_pr_comment as the summary comment contains no finding that the     *)
(* reconcile step later drops as unmappable.                               *)
(* The summary body is the whole comment_text, posted before any block is  *)
(* parsed: it holds the text of every finding, the dropped ones included.  *)
(***************************************************************************)
\* the text of blocks[i] as it stands in the review text, marker included
BlockText(c, i) == sFile \o SplitBlocks(comment_text[c])[i]

C18_UnmappedNotInSummary ==
    \A c \in Cycles : \A j \in Where(c, IsDiag) : \A k \in Where(c, IsCommentCall) :
        Find(trace[c][k].body, BlockText(c, trace[c][j].block)) = 0

(***************************************************************************)
(* C19.  Pull-request events are reviewed: for a payload that contains a   *)
(* pull_request record with a repository full name and a PR number,        *)
(* webhook_handler goes on to fetch the PR's changed files; it does not    *)
(* fail or return before fetching them.                                    *)
(* Line 269 reads the local branch, which the pull_request path never      *)
(* assigns: the handler raises UnboundLocalError before line 275.          *)
(***************************************************************************)
IsFilesCall(e) == IsCall(e, "get_pr_files")

\* cycle c was delivered a complete pull_request payload
PullRequestDelivered(c) ==
    /\ trace[c] # <<>>
    /\ trace[c][1].kind = "pull_request"
    /\ trace[c][1].payload.has_repo /\ trace[c][1].payload.has_number

C19_PullRequestReviewed ==
    \A c \in Cycles : PullRequestDelivered(c) => Where(c, IsFilesCall) # {}

(***************************************************************************)
(* C20.  Hunk-header handling in the mapper: a line starting with "@@"     *)
(* that matches the hunk-header pattern sets new_line_num to               *)
(* newStart - 1, so that the next "+" or context line is recorded under    *)
(* the key newStart; a line starting with "@@" that does not match leaves  *)
(* new_line_num unchanged; either line adds no map entry and advances      *)
(* position by one.                                                        *)
(***************************************************************************)
\* newStart of the hunk headers of the patches, 0 for the header that does
\* not match the pattern
NewStart(line) ==
    CASE line = hunkAt1 -> 1
      [] line = hunkAt3 -> 3
      [] OTHER -> 0

IsRecorded(line) == FirstChar(line) \in {"+", " "}

C20_HunkHeader ==
    [][Scanning =>
         LET line == patch_lines[scanned + 1] IN
         /\ StartsWith(line, <<"@", "@">>) =>
               /\ position' = position + 1
               /\ line_map' = line_map
               /\ new_line_num' = IF NewStart(line) > 0 THEN NewStart(line) - 1
                                  ELSE new_line_num
         /\ (scanned >= 1 /\ NewStart(patch_lines[scanned]) > 0 /\ IsRecorded(line)) =>
               /\ NewStart(patch_lines[scanned]) \in DOMAIN line_map'
               /\ line_map'[NewStart(patch_lines[scanned])] = scanned + 1]_vars

\* a matching header, the line after it recorded under newStart = 3, and a
\* header that does not match scanned as well
C20_Witness ==
    /\ scanned >= 3
    /\ \E i \in 1..(scanned - 1) :
          /\ patch_lines[i] = hunkAt3 /\ IsRecorded(patch_lines[i + 1])
          /\ 3 \in DOMAIN line_map /\ line_map[3] = i + 1
    /\ \E i \in 1..scanned : patch_lines[i] = hunkBad

(***************************************************************************)
(* C21.  Position is the raw line index: for every patch and every entry   *)
(* map[k] = p, p is the 1-based index of the recorded line among all the   *)
(* lines of the patch (hunk headers, removed lines and other lines         *)
(* included) and k is new_line_num after its increment for that line:      *)
(* newStart - 1 of the last matching header before the line (0 when there  *)
(* is none) plus the recorded lines from there to the line.  The patch     *)
(* "@@ -1,2 +1,3 @@", " context", "+added", "-removed" yields exactly       *)
(* {1: 2, 2: 3}, the empty patch the empty map.                            *)
(***************************************************************************)
\* the index of the last matching hunk header before line p, 0 if none
LastHeader(lines, p) ==
    LET hs == {i \in 1..(p - 1) : NewStart(lines[i]) > 0} IN
    IF hs = {} THEN 0 ELSE CHOOSE i \in hs : \A j \in hs : j <= i

\* new_line_num after the increment for the recorded line p
KeyOf(lines, p) ==
    LET h == LastHeader(lines, p) IN
    (IF h = 0 THEN 0 ELSE NewStart(lines[h]) - 1)
    + Cardinality({i \in (h + 1)..p : IsRecorded(lines[i])})

C21_RawLineIndex ==
    /\ position = scanned
    /\ \A k \in DOMAIN line_map :
          /\ line_map[k] \in 1..scanned
          /\ IsRecorded(patch_lines[line_map[k]])
          /\ KeyOf(patch_lines, line_map[k]) = k
    /\ \A p \in 1..scanned :
          IsRecorded(patch_lines[p]) =>
             /\ KeyOf(patch_lines, p) \in DOMAIN line_map
             /\ line_map[KeyOf(patch_lines, p)] >= p
    /\ (map_pc = "done" /\ patch = patchOne) => line_map = (1 :> 2) @@ (2 :> 3)
    /\ (map_pc = "done" /\ patch = <<>>) => line_map = <<>>

\* the patch of the example has been mapped, its removed line included
C21_Witness ==
    /\ map_pc = "done" /\ patch = patchOne
    /\ line_map = (1 :> 2) @@ (2 :> 3) /\ position = 4

(***************************************************************************)
(* C22.  One finding per marker: the parser discards the text before the   *)
(* first "File:" marker and produces exactly one finding for every later   *)
(* split segment, so that when it stops the number of findings equals the  *)
(* number of occurrences of "File:" in the review text, and each finding's *)
(* file_path is the trimmed first line of its segment.                     *)
(* The code raises at a segment of nothing but whitespace (C1) and         *)
(* produces no finding for it nor for the segments after it.               *)
(***************************************************************************)
\* the number of occurrences of the marker in a text
MarkerCount(text) ==
    Cardinality({i \in 1..Len(text) :
                    /\ i + Len(sFile) - 1 <= Len(text)
                    /\ SubSeq(text, i, i + Len(sFile) - 1) = sFile})

Stopped == ps_pc \in {"done", "raised"}

C22_OneFindingPerMarker ==
    Stopped =>
       /\ Len(ps_findings) = MarkerCount(ps_text)
       /\ \A i \in 1..Len(ps_findings) :
             LET seg == SplitLines(Strip(ps_blocks[i + 1])) IN
             seg # <<>> /\ ps_findings[i].current_file = Strip(seg[1])

(***************************************************************************)
(* C23.  Non-integer line number: a block whose "Line:" value does not     *)
(* parse as an integer yields a finding with absent line_number; the       *)
(* finding is still produced, its other fields are those of the block      *)
(* without its "Line:" lines, it produces no inline comment, and the       *)
(* blocks after it are parsed all the same.  Stated of the handler with a  *)
(* single delivery: it is about what one cycle does with its review text.  *)
(***************************************************************************)
IsLineField(l) == StartsWith(l, sLine)
NotLineField(l) == ~IsLineField(l)

\* a block with "Line:" lines after its first line, none of which parses
BadLineBlock(block) ==
    /\ ~BlockRaises(block)
    /\ LET ls == SelectSeq(Tail(BlockLines(block)), IsLineField) IN
       /\ ls # <<>>
       /\ \A k \in 1..Len(ls) : ~ParseInt(AfterColon(ls[k])).ok

\* the block without the "Line:" lines that follow its first line
WithoutLineFields(block) ==
    LET lines == BlockLines(block) IN
    JoinLines(<<lines[1]>> \o SelectSeq(Tail(lines), NotLineField))

BadLineBlocks(blocks) == {i \in 2..Len(blocks) : BadLineBlock(blocks[i])}

FindingsOf(c, i) == {j \in Where(c, IsFinding) : trace[c][j].block = i}
InlineCallsOf(c, i) == {j \in Where(c, IsInlineCall) : trace[c][j].block = i}

C23_NonIntegerLineNumber ==
    \A c \in Cycles : \A blocks \in {SplitBlocks(comment_text[c])} :
        /\ \A j \in Where(c, IsFinding) :
              BadLineBlock(blocks[trace[c][j].block])
              => /\ trace[c][j].finding.line_num = None
                 /\ trace[c][j].finding
                       = ParseBlock(WithoutLineFields(blocks[trace[c][j].block]))
        /\ \A j \in Where(c, IsInlineCall) :
              ~BadLineBlock(blocks[trace[c][j].block])
        /\ LoopComplete(c)
           => \A i \in BadLineBlocks(blocks) :
                 /\ FindingsOf(c, i) # {}
                 /\ i..Len(blocks) \subseteq FindingBlocks(c)

\* a block with "Line: x" gave a finding with its severity and no line
\* number, and the finding of the block after it was posted
C23_Witness ==
    \E c \in Cycles : \E i \in BadLineBlocks(SplitBlocks(comment_text[c])) :
      \E j \in FindingsOf(c, i) :
        /\ trace[c][j].finding.line_num = None
        /\ trace[c][j].finding.severity = Some(<<"M">>)
        /\ InlineCallsOf(c, i + 1) # {}
        /\ LoopComplete(c)

(***************************************************************************)
(* C24.  Field-order independence: for a block in which each of the        *)
(* prefixes Line:, Severity:, Issue:, Suggestion: occurs at most once      *)
(* outside any code fence, the parsed line_number, severity, issue and     *)
(* suggestion_text are the same for every permutation of those field       *)
(* lines, and a field whose prefix occurs on no line of the block is       *)
(* absent.                                                                 *)
(* The code reads a line that begins with a prefix as a field inside a     *)
(* fence too (C17), so a field line before the fence and the same field    *)
(* line after it give different values.                                    *)
(***************************************************************************)
FieldPrefixes == {sLine, sSeverity, sIssue, sSuggestion}

HasPrefix(l, pre) == StartsWith(l, pre)
IsFieldLine(l) == \E pre \in FieldPrefixes : HasPrefix(l, pre)

\* line k of the block is inside a code fence: after an opening fence with
\* no closing fence in between
InsideFence(lines, k) ==
    \E o \in 2..(k - 1) :
        /\ IsFenceOpen(lines[o])
        /\ \A i \in (o + 1)..(k - 1) : ~IsFenceClose(lines[i])

\* the field lines of the block outside any code fence
FieldLinesOutside(lines) ==
    {k \in 2..Len(lines) : IsFieldLine(lines[k]) /\ ~InsideFence(lines, k)}

AtMostOnceOutside(lines) ==
    \A a, b \in FieldLinesOutside(lines) :
        (\E pre \in FieldPrefixes : HasPrefix(lines[a], pre) /\ HasPrefix(lines[b], pre))
        => a = b

Bijections(S) == {f \in [S -> S] : \A a, b \in S : f[a] = f[b] => a = b}

Permuted(lines, f) ==
    [k \in 1..Len(lines) |-> IF k \in DOMAIN f THEN lines[f[k]] ELSE lines[k]]

Fields(st) == <<st.line_num, st.severity, st.issue, st.suggestion>>

PrefixAbsent(lines, pre) == \A k \in 2..Len(lines) : ~HasPrefix(lines[k], pre)

FieldOrderIndependent(lines, finding) ==
    /\ \A f \in Bijections(FieldLinesOutside(lines)) :
          Fields(ParseLines(ParseInit, Tail(Permuted(lines, f)))) = Fields(finding)
    /\ PrefixAbsent(lines, sLine) => finding.line_num = None
    /\ PrefixAbsent(lines, sSeverity) => finding.severity = None
    /\ PrefixAbsent(lines, sIssue) => finding.issue = None
    /\ PrefixAbsent(lines, sSuggestion) => finding.suggestion = None

C24_FieldOrderIndependence ==
    \A i \in 1..Len(ps_findings) :
        LET lines == BlockLines(ps_blocks[i + 1]) IN
        AtMostOnceOutside(lines) => FieldOrderIndependent(lines, ps_findings[i])

(***************************************************************************)
(* C25.  One pair per added line: extract_changed_lines emits exactly one  *)
(* pair for every line that starts with "+" but not "+++", in patch order; *)
(* the pair is (pending, added) when a pending removal exists, which the   *)
(* pair then clears, and ("", added) otherwise; lines starting with "---"  *)
(* or "+++" emit nothing and do not change the pending removal.  The       *)
(* pending removal of an added line is the last removed line before it     *)
(* with no added line in between.  "-q", "+a" yields [("q", "a")] and "+a" *)
(* yields [("", "a")].                                                     *)
(***************************************************************************)
\* the added lines among the first n lines
AddedIdx(n) == {i \in 1..n : IsAddedLine(ex_lines[i])}

\* the k-th added line
NthAdded(k) ==
    CHOOSE a \in AddedIdx(Len(ex_lines)) :
        Cardinality({b \in AddedIdx(Len(ex_lines)) : b <= a}) = k

\* the removed lines pending at line a: no added line between them and a
PendingAt(a) ==
    {r \in 1..(a - 1) :
        /\ IsRemovedLine(ex_lines[r])
        /\ \A j \in (r + 1)..(a - 1) : ~IsAddedLine(ex_lines[j])}

LastOf(S) == CHOOSE r \in S : \A q \in S : q <= r

PendingText(a) ==
    IF PendingAt(a) = {} THEN <<>> ELSE Content(ex_lines[LastOf(PendingAt(a))])

C25_OnePairPerAddedLine ==
    /\ Len(changes) = Cardinality(AddedIdx(ex_i))
    /\ \A k \in 1..Len(changes) :
          changes[k] = <<PendingText(NthAdded(k)), Content(ex_lines[NthAdded(k)])>>
    /\ (ex_pc = "done" /\ ex_lines = <<removedLineQ, addedLine>>)
          => changes = << <<<<"q">>, <<"a">>>> >>
    /\ (ex_pc = "done" /\ ex_lines = <<addedLine>>)
          => changes = << <<<<>>, <<"a">>>> >>

\* a removal paired with the added line after a file header, and the next
\* added line paired with nothing
C25_Witness ==
    /\ ex_pc = "done"
    /\ ex_lines = <<removedLineQ, plusHeader, addedLine, addedLine>>
    /\ changes = << <<<<"q">>, <<"a">>>>, <<<<>>, <<"a">>>> >>

(***************************************************************************)
(* C26.  Pending removal is overwritten: when several removed lines occur  *)
(* before the next added line, only the last of them is paired with that   *)
(* added line; the earlier removed lines appear in no emitted pair: every  *)
(* removed text of a pair is the text of the last removed line before an   *)
(* added line.                                                             *)
(***************************************************************************)
\* the removed lines that are the last one pending at an added line
LastRemoved(n) ==
    {LastOf(PendingAt(a)) : a \in {b \in AddedIdx(n) : PendingAt(b) # {}}}

C26_PendingOverwritten ==
    /\ \A k \in 1..Len(changes) :
          Cardinality(PendingAt(NthAdded(k))) >= 2
          => changes[k][1] = Content(ex_lines[LastOf(PendingAt(NthAdded(k)))])
    /\ {changes[k][1] : k \in 1..Len(changes)} \ {<<>>}
          \subseteq {Content(ex_lines[r]) : r \in LastRemoved(ex_i)}

\* two removed lines before an added line: the pair holds the second one
C26_Witness ==
    /\ ex_pc = "done"
    /\ ex_lines = <<removedLine, removedLineQ, addedLine>>
    /\ changes = << <<<<"q">>, <<"a">>>> >>

(***************************************************************************)
(* C27.  Combined key: every inline comment posted for a finding (f, n) is *)
(* posted with path f and with position file_patch_maps[f][n], the         *)
(* position the patch of file f has for line n; a finding is never         *)
(* positioned using the map of a different file, even when another file's  *)
(* map contains the same line number n.                                    *)
(***************************************************************************)
\* the patches the changed files of cycle c have under the name f
PatchesOf(c, f) ==
    {pr_files[c][k].patch :
        k \in {h \in 1..Len(pr_files[c]) : pr_files[c][h].filename = f}}

\* the finding an inline comment request of cycle c was made for
FindingOfCall(c, j) ==
    trace[c][CHOOSE k \in FindingsOf(c, trace[c][j].block) : TRUE].finding

C27_CombinedKey ==
    \A c \in Cycles : \A j \in Where(c, IsInlineCall) :
        /\ FindingsOf(c, trace[c][j].block) # {}
        /\ \A f \in {FindingOfCall(c, j)} :
           /\ f.line_num.some
           /\ trace[c][j].path = f.current_file
           /\ f.current_file \in DOMAIN file_patch_maps[c]
           /\ f.line_num.val \in DOMAIN file_patch_maps[c][f.current_file]
           /\ trace[c][j].position = file_patch_maps[c][f.current_file][f.line_num.val]
           /\ \A p \in PatchesOf(c, f.current_file) :
                 trace[c][j].position = map_line_to_position(p)[f.line_num.val]

\* the finding (b, 1) was posted at the position of file b while the map of
\* file a has another position for line 1
C27_Witness ==
    \E c \in Cycles : \E j \in Where(c, IsInlineCall) :
        /\ trace[c][j].path = fileB
        /\ FindingsOf(c, trace[c][j].block) # {}
        /\ FindingOfCall(c, j).line_num = Some(1)
        /\ trace[c][j].position = 3
        /\ fileA \in DOMAIN file_patch_maps[c]
        /\ 1 \in DOMAIN file_patch_maps[c][fileA]
        /\ file_patch_maps[c][fileA][1] = 2

(***************************************************************************)
(* C28.  Inline comment body: for every mapped finding the posted body is  *)
(* the template "**<Severity>**", "Issue: <issue>", "Suggestion:           *)
(* <suggestion>", each followed by an empty line, then a suggestion fence  *)
(* containing the captured code without its surrounding whitespace;        *)
(* severity is "Info" when the finding has none, and the fence is empty    *)
(* when no code was captured.  An absent issue or suggestion is formatted  *)
(* as the text None.                                                       *)
(***************************************************************************)
Bold(t) == <<"*", "*">> \o t \o <<"*", "*">>
Field(pre, opt) == pre \o <<" ">> \o (IF opt.some THEN opt.val ELSE sNone)
Fenced(code) == sFenceOpen \o <<NL>> \o code \o <<NL>> \o sFence

Template(f) ==
    JoinLines(<<Bold(IF f.severity.some /\ f.severity.val # <<>>
                     THEN f.severity.val ELSE sInfo), <<>>,
                Field(sIssue, f.issue), <<>>,
                Field(sSuggestion, f.suggestion), <<>>,
                Fenced(IF f.suggestion_code = <<>> THEN <<>>
                       ELSE Strip(f.suggestion_code))>>)

C28_InlineCommentBody ==
    \A c \in Cycles : \A j \in Where(c, IsInlineCall) :
        /\ FindingsOf(c, trace[c][j].block) # {}
        /\ trace[c][j].body = Template(FindingOfCall(c, j))

\* one body with severity, issue, suggestion and code, and one body with the
\* default severity and an empty fence
C28_Witness ==
    /\ \E c \in Cycles : \E j \in Where(c, IsInlineCall) :
          /\ FindingsOf(c, trace[c][j].block) # {}
          /\ FindingOfCall(c, j).severity = Some(<<"M">>)
          /\ FindingOfCall(c, j).issue = Some(<<"i">>)
          /\ FindingOfCall(c, j).suggestion_code = <<" ", "y", NL>>
          /\ trace[c][j].body =
                JoinLines(<<Bold(<<"M">>), <<>>, sIssue \o <<" ", "i">>, <<>>,
                            sSuggestion \o <<" ", "s">>, <<>>,
                            sFenceOpen, <<"y">>, sFence>>)
    /\ \E c \in Cycles : \E j \in Where(c, IsInlineCall) :
          /\ FindingsOf(c, trace[c][j].block) # {}
          /\ FindingOfCall(c, j).severity = None
          /\ FindingOfCall(c, j).suggestion_code = <<>>
          /\ trace[c][j].body =
                JoinLines(<<Bold(sInfo), <<>>, sIssue \o <<" ">> \o sNone, <<>>,
                            sSuggestion \o <<" ">> \o sNone, <<>>,
                            sFenceOpen, <<>>, sFence>>)

(***************************************************************************)
(* C29.  At most one comment per worker cycle: every run of handle_review  *)
(* makes at most one comment-post attempt on the pull request, and exactly *)
(* one on each of these paths: health check fails or raises (error         *)
(* comment), diff is empty (info comment), LLM call fails (error comment), *)
(* LLM call succeeds (review comment), clone fails (error comment); an     *)
(* error comment and a review comment are never both posted in one cycle.  *)
(***************************************************************************)
Posted(kind) == \E i \in 1..Len(comments) : comments[i] = kind

\* handle_review has left its try block
WorkerEnded == worker_pc \in {"finally", "returned"}

\* the payload had every field handle_review reads
FieldsRead == request # NoRequest /\ Review(request).worker /\ request.clone_fields = "ok"

C29_OneCommentPerCycle ==
    /\ Len(comments) <= 1
    /\ ~(Posted("error") /\ Posted("review"))
    /\ (WorkerEnded /\ FieldsRead) =>
          \* the health check or the clone failed
          /\ (llm_out = "none" /\ repo_path = "None") => comments = <<"error">>
          \* the diff was empty
          /\ (llm_out = "none" /\ repo_path # "None") => comments = <<"info">>
          /\ llm_out = "raised" => comments = <<"error">>
          /\ llm_out = "returned" => comments = <<"review">>
          /\ llm_out \in {"none", "raised", "returned"}

\* the LLM call failed after its last attempt and one error comment was posted
C29_Witness ==
    /\ worker_pc = "returned" /\ FieldsRead
    /\ llm_out = "raised" /\ attempts_made = max_retries
    /\ comments = <<"error">>

(***************************************************************************)
(* C30.  Auto-fix loop prevention: a webhook event whose branch name (the  *)
(* last segment of the pushed ref, which is what the handler reads) starts *)
(* with "auto-fix-" ends the cycle before any file fetch, review           *)
(* generation, comment post, patch application or new-PR creation, so the  *)
(* fix PR created by one cycle never causes a further fix PR to be         *)
(* created: neither the push of its branch nor its pull_request event      *)
(* reaches create_new_pr.                                                  *)
(***************************************************************************)
ReviewSteps ==
    {"get_pr_files", "get_file_content", "generate_review_comment",
     "post_pr_comment", "post_inline_comment", "apply_suggestions_locally",
     "create_new_pr"}

IsReviewStep(e) == e.ev \in {"call", "ret"} /\ e.fn \in ReviewSteps
IsNewPrCall(e) == IsCall(e, "create_new_pr")

\* the delivery of cycle c is the push of a branch named auto-fix-...
AutoFixPush(c) ==
    /\ trace[c] # <<>>
    /\ trace[c][1].kind = "push"
    /\ StartsWith(LastSegment(trace[c][1].payload.ref), sAutoFix)

\* the delivery of cycle c is a pull_request event
PullRequestEvent(c) == trace[c] # <<>> /\ trace[c][1].kind = "pull_request"

C30_AutoFixLoopPrevention ==
    \A c \in Cycles :
        /\ AutoFixPush(c) =>
              /\ Where(c, IsReviewStep) = {}
              /\ pc[c] \in {"await_find_pr", "await_metadata", "done_200",
                            "done_400", "done_500"}
        /\ (AutoFixPush(c) \/ PullRequestEvent(c)) => Where(c, IsNewPrCall) = {}

\* the push of an auto-fix branch with an open PR: ignored once the metadata
\* of the PR has been fetched
C30_Witness ==
    \E c \in Cycles :
        /\ AutoFixPush(c)
        /\ pc[c] = "done_200"
        /\ \E j \in Idx(c) : IsRet(trace[c][j], "get_pr_metadata") /\ trace[c][j].ok
        /\ trace[c][Len(trace[c])].ev = "ignored"

(***************************************************************************)
(* C31.  Worker start filter: review() starts a handle_review worker if    *)
(* and only if the request is a POST with a non-empty parsable payload,    *)
(* the X-GitHub-Event header is "pull_request", the payload has both       *)
(* "pull_request" and "action", and action is one of opened, synchronize,  *)
(* reopened; every other request returns without starting a worker.        *)
(* The code reads pull_request.number and repository.full_name before it   *)
(* starts the thread: a request that passes the filter without them ends   *)
(* in the KeyError handler with status 500 and no worker.                  *)
(***************************************************************************)
\* the request passes the filter of the claim
PassesFilter(req) ==
    /\ req.method = "POST"
    /\ req.payload = "dict"
    /\ req.event = "pull_request"
    /\ req.has_pull_request /\ req.has_action
    /\ req.action \in {"opened", "synchronize", "reopened"}

\* a handle_review worker has been started
WorkerStarted == worker_pc # "none"

C31_WorkerStartFilter ==
    request # NoRequest => (WorkerStarted <=> PassesFilter(request))


(***************************************************************************)
(* C32.  HTTP status errors are not retried.  Of the requests call_litellm *)
(* has sent, one answered with an HTTP status error is the last one: the   *)
(* call has raised, no wait follows that request and no further request    *)
(* was sent.  A connect timeout, a read timeout or another exception on    *)
(* attempt 1 or 2 is followed by the wait of 5 or 10 seconds and by        *)
(* another attempt: either the next request is sent already, or the loop   *)
(* is about to send it.                                                    *)
(***************************************************************************)
Retried == {"connect_timeout", "read_timeout", "other"}

C32_StatusErrorNotRetried ==
    /\ Len(outcomes) = attempts_made
    /\ \A i \in 1..Len(outcomes) :
         /\ outcomes[i] = "http_status" =>
              /\ i = Len(outcomes)
              /\ worker_pc # "llm" /\ llm_out = "raised"
              /\ Len(sleeps) = i - 1
         /\ (outcomes[i] \in Retried /\ i < max_retries) =>
              /\ Len(sleeps) >= i /\ sleeps[i] = i * 5
              /\ \/ Len(outcomes) > i
                 \/ worker_pc = "llm" /\ attempt = i

\* a timeout was retried, and the status error of the second request ended
\* the call after the one wait
C32_Witness ==
    /\ outcomes = <<"read_timeout", "http_status">>
    /\ llm_out = "raised" /\ sleeps = <<5>> /\ attempts_made = 2
    /\ worker_pc = "returned"
====
